---- MODULE Spec2Model ----
(***************************************************************************)
(* Permagit backend: the payment-gated authorization engine.               *)
(*                                                                         *)
(* The relational store is modelled as its committed tables (sets of       *)
(* rows).  Every request handler is a process that runs the handler's SQL  *)
(* statements one per step, so that requests interleave at every await.    *)
(* Statements sent through pool.query are autocommitted; statements sent   *)
(* through a connected client between BEGIN and COMMIT are kept in the     *)
(* request's write set and reach the tables at COMMIT (READ COMMITTED, the *)
(* store's default, since the handlers issue a bare BEGIN).                *)
(*                                                                         *)
(* A nullable column holds <<>> for NULL and <<v>> for the value v.        *)
(***************************************************************************)
EXTENDS Integers, Sequences, FiniteSets, TLC

\* ------------------------------------------------------------------ bounds

\* Last instant of the wall clock.
MaxTime == 1

\* Last minute of the wall clock where tickets expire.
MaxMinute == 2

\* Lines the remote helper reads in all.
MaxLines == 4

\* Lines in one chunk of the helper's stdin.
MaxChunk == 2

\* -------------------------------------------------------------- nullable

Null == <<>>

Some(v) == <<v>>

IsNull(x) == x = <<>>

Val(x) == x[1]

\* ------------------------------------------------------------ environment

\* Request-handling processes in flight at once.
Procs == {"p1", "p2"}

PAYMENT_DESTINATION == "dest"

PAYMENT_TOKEN_MINT == "mint"

\* decimalToAtomic(PAYMENT_MIN_TOKENS = "10", decimals) with decimals = 0.
MIN_PAYMENT_ATOMIC == 10

Purposes == {"repo_init", "otp_share", "multisig_setup"}

\* The ledger: what getTransaction returns for each signature.  down = the
\* RPC call throws, found = tx and tx.meta are present, err = tx.meta.err;
\* the balance lists carry (owner, mint, accountIndex, amount).
Bal(o, m, i, a) == [owner |-> o, mint |-> m, accountIndex |-> i, amount |-> a]

Chain ==
  [ tx1 |-> [down |-> FALSE, found |-> TRUE, err |-> FALSE,
             pre  |-> <<Bal("payer", "mint", 0, 50), Bal("dest", "mint", 1, 5)>>,
             post |-> <<Bal("payer", "mint", 0, 40), Bal("dest", "mint", 1, 15)>>],
    tx2 |-> [down |-> FALSE, found |-> TRUE, err |-> FALSE,
             pre  |-> <<Bal("payer", "mint", 0, 12)>>,
             post |-> <<Bal("payer", "mint", 0, 0), Bal("dest", "mint", 1, 12)>>],
    tx3 |-> [down |-> FALSE, found |-> TRUE, err |-> FALSE,
             pre  |-> <<Bal("payer", "mint", 0, 12)>>,
             post |-> <<Bal("payer", "mint", 0, 0), Bal("dest", "mint", 1, 12)>>],
    txIdx |-> [down |-> FALSE, found |-> TRUE, err |-> FALSE,
             pre  |-> <<Bal("dest", "mint", 2, 30), Bal("dest", "other", 1, 4),
                        Bal("payer", "mint", 0, 11)>>,
             post |-> <<Bal("dest", "other", 1, 4), Bal("dest", "mint", 1, 11),
                        Bal("dest", "mint", 2, 30), Bal("payer", "mint", 0, 0)>>],
    txLow |-> [down |-> FALSE, found |-> TRUE, err |-> FALSE,
             pre  |-> <<Bal("payer", "mint", 0, 9), Bal("dest", "mint", 1, 20)>>,
             post |-> <<Bal("payer", "mint", 0, 2), Bal("dest", "mint", 1, 27)>>],
    txZero |-> [down |-> FALSE, found |-> TRUE, err |-> FALSE,
             pre  |-> <<Bal("payer", "mint", 0, 9), Bal("dest", "mint", 1, 20)>>,
             post |-> <<Bal("payer", "mint", 0, 9), Bal("dest", "mint", 1, 20)>>],
    txOther |-> [down |-> FALSE, found |-> TRUE, err |-> FALSE,
             pre  |-> <<Bal("payer", "mint", 0, 12), Bal("dest", "other", 1, 0)>>,
             post |-> <<Bal("payer", "mint", 0, 0), Bal("else", "mint", 1, 12),
                        Bal("dest", "other", 1, 12)>>],
    txFailed |-> [down |-> FALSE, found |-> TRUE, err |-> TRUE,
             pre  |-> <<Bal("payer", "mint", 0, 12)>>,
             post |-> <<Bal("payer", "mint", 0, 0), Bal("dest", "mint", 1, 12)>>],
    txNone |-> [down |-> FALSE, found |-> FALSE, err |-> FALSE,
             pre |-> <<>>, post |-> <<>>],
    txDown |-> [down |-> TRUE, found |-> TRUE, err |-> FALSE,
             pre  |-> <<Bal("payer", "mint", 0, 12)>>,
             post |-> <<Bal("payer", "mint", 0, 0), Bal("dest", "mint", 1, 12)>>] ]

TxSigs == DOMAIN Chain

Names == {"acme", "beta"}

\* ------------------------------------------------------------------ state

VARIABLES
  payments,             \* table payments (committed rows)
  repos,                \* table repos
  otp_tokens,           \* table otp_tokens
  multisig_pushes,      \* table multisig_pushes
  multisig_signatures,  \* table multisig_signatures
  pushes,               \* table pushes
  helper,               \* the git remote helper process (git-remote-permagit)
  proc,                 \* per process: the request it runs and its locals
  now,                  \* wall clock (Date.now() and the store's NOW())
  granted,              \* history: per tx signature, the /repos and
                        \* /otp/request transactions committed with it
  setupDone             \* history: the tx signatures a /multisig/setup
                        \* has answered successfully with

vars == <<payments, repos, otp_tokens, multisig_pushes, multisig_signatures,
          pushes, helper, proc, now, granted, setupDone>>

tables == <<payments, repos, otp_tokens, multisig_pushes, multisig_signatures,
            pushes>>

hist == <<granted, setupDone>>

\* A process that runs no request.  Every process record has these fields.
Idle ==
  [ op |-> "none", pc |-> "idle",
    txSig |-> "", purpose |-> "", payer |-> Null,
    name |-> Null, owner |-> Null, signers |-> <<>>,
    reqThreshold |-> Null, \* req.body.threshold as a number
    threshold |-> Null,    \* computedThreshold
    pushTx |-> "", bundleTx |-> "", key |-> Null, ttl |-> Null,
    otp |-> "",            \* req.body.otp of /otp/redeem
    ticket |-> Null,       \* the otp_tokens row the handler read
    signer |-> "",         \* req.body.signer of /multisig/approve
    signature |-> Null,    \* req.body.signatureB64
    push |-> Null,         \* the multisig_pushes row read FOR UPDATE
    pushLock |-> Null,     \* id of the multisig_pushes row locked FOR UPDATE
    wSig |-> Null,         \* write set: multisig_signatures row inserted
    approvalsCount |-> 0,  \* countResult.rows[0].count
    payment |-> Null,      \* id of the payments row the handler read
    repo |-> Null,         \* the repos row the handler read
    amount |-> 0,          \* chainInfo.amountAtomic
    txStart |-> Null,      \* instant of BEGIN: the transaction's NOW()
    lock |-> Null,         \* id of the payments row locked FOR UPDATE
    wRepo |-> Null,        \* write set: repos row inserted
    wOtp |-> Null,         \* write set: otp_tokens row inserted
    wConsumed |-> FALSE,   \* write set: payments.consumed_at of the locked row
    err |-> "",            \* message of the error thrown inside try
    res |-> "",            \* outcome reported to the caller
    response |-> Null,     \* body of a successful response
    late |-> FALSE ]       \* history: when this request arrived, a request
                           \* of its kind with its txSig had succeeded

Free(p) == proc[p].pc \in {"idle", "done"}

\* The request ends: the response is sent, the handler's locals are gone.
\* What stays is the outcome, the payment, token or push and signer named
\* and, for /payments/verify, /otp/request, /otp/redeem and
\* /multisig/approve, the body's
\* purpose and payer and the body answered.
Done(r, res, response) ==
  [Idle EXCEPT !.op = r.op, !.pc = "done", !.txSig = r.txSig,
               !.purpose = r.purpose, !.payer = r.payer, !.late = r.late,
               !.otp = r.otp, !.signer = r.signer,
               !.pushTx = IF r.op \in {"approve", "pushlog"} THEN r.pushTx ELSE "",
               !.res = res,
               !.response = IF r.op \in {"verify", "issue", "redeem", "approve",
                                          "pushlog"}
                            THEN response ELSE Null]

Set(p, r) == proc' = [proc EXCEPT ![p] = r]

\* randomUUID(): an id no row of the table (and no row a transaction is
\* about to commit to it) carries; the ids are opaque, the least unused
\* number stands for a fresh one.
randomUUID(used) == CHOOSE i \in 1..(Cardinality(used) + 1) :
                      i \notin used /\ \A j \in 1..(i - 1) : j \in used

\* ------------------------------------------------------- pure functions

RECURSIVE toString(_)
\* bigint.toString(): the decimal digits of a natural number.
toString(n) == IF n < 10 THEN <<n>> ELSE Append(toString(n \div 10), n % 10)

RECURSIVE BigInt(_)
\* BigInt(text) of a string of decimal digits.
BigInt(s) ==
  IF s = <<>> THEN 0 ELSE 10 * BigInt(SubSeq(s, 1, Len(s) - 1)) + s[Len(s)]

\* Array.prototype.find: the first entry satisfying Test, or Null.
Find(list, Test(_)) ==
  LET hits == {i \in 1..Len(list) : Test(list[i])}
  IN  IF hits = {} THEN Null
      ELSE Some(list[CHOOSE i \in hits : \A j \in hits : i <= j])

RECURSIVE NonEmpty(_)
\* .filter((v) => v.length > 0)
NonEmpty(list) ==
  IF list = <<>> THEN <<>>
  ELSE (IF Head(list) # "" THEN <<Head(list)>> ELSE <<>>) \o NonEmpty(Tail(list))

\* The entries of input are given trimmed; "" stands for an entry that is
\* blank or no string.
parseSigners(input) == IF IsNull(input) THEN <<>> ELSE NonEmpty(Val(input))

\* A JavaScript number x is held as the integer 2x: the numbers of the
\* model are the multiples of one half.  Num(i) is the integer i as a
\* number, Whole(x) the integer that the number x is.
Num(i) == 2 * i

IsInteger(x) == x % 2 = 0

Whole(x) == x \div 2

\* Math.ceil(n / 2)
CeilHalf(n) == (n + 1) \div 2

\* A calcThreshold without the test maybeThreshold <= signers.length.
calcThresholdNoUpperBound(signers, maybeThreshold) ==
  IF Len(signers) = 0 THEN Null
  ELSE IF /\ ~IsNull(maybeThreshold)
          /\ Val(maybeThreshold) # 0
          /\ Val(maybeThreshold) > 0
       THEN maybeThreshold
  ELSE Some(Num(CeilHalf(Len(signers))))

\* signers is the parsed list, maybeThreshold a number or Null (undefined).
calcThreshold(signers, maybeThreshold) ==
  IF Len(signers) = 0 THEN Null
  ELSE IF /\ ~IsNull(maybeThreshold)
          /\ Val(maybeThreshold) # 0
          /\ Val(maybeThreshold) > 0
          /\ Val(maybeThreshold) <= Num(Len(signers))
       THEN maybeThreshold
  ELSE Some(Num(CeilHalf(Len(signers))))

\* The value an INTEGER column takes from a parameter: Null for null, the
\* integer for an integral number.  A number with a fraction is refused by
\* the store (invalid input syntax for type integer).
IntegerColumnError(x) ==
  IF ~IsNull(x) /\ ~IsInteger(Val(x)) THEN "invalid_input_syntax" ELSE ""

IntegerColumn(x) == IF IsNull(x) THEN Null ELSE Some(Whole(Val(x)))

\* An INTEGER column read back as a JavaScript number.
IntegerValue(x) == IF IsNull(x) THEN Null ELSE Some(Num(Val(x)))

\* verifyTokenPayment that takes the recipient's post-balance as the amount.
verifyTokenPaymentPostOnly(txSig) ==
  LET tx == Chain[txSig]
      IsDest(e) == e.owner = PAYMENT_DESTINATION /\ e.mint = PAYMENT_TOKEN_MINT
      dest == Find(tx.post, IsDest)
      delta == Val(dest).amount
  IN  IF tx.down THEN [err |-> "rpc_failed", amountAtomic |-> 0]
      ELSE IF ~tx.found THEN [err |-> "transaction_not_found", amountAtomic |-> 0]
      ELSE IF tx.err THEN [err |-> "transaction_failed", amountAtomic |-> 0]
      ELSE IF IsNull(dest) THEN [err |-> "destination_not_involved", amountAtomic |-> 0]
      ELSE IF delta <= 0 THEN [err |-> "no_deposit_detected", amountAtomic |-> 0]
      ELSE [err |-> "", amountAtomic |-> delta]

verifyTokenPayment(txSig) ==
  LET tx == Chain[txSig]
      IsDest(e) == e.owner = PAYMENT_DESTINATION /\ e.mint = PAYMENT_TOKEN_MINT
      dest == Find(tx.post, IsDest)
      IsPre(e) == /\ e.mint = PAYMENT_TOKEN_MINT
                  /\ e.owner = PAYMENT_DESTINATION
                  /\ e.accountIndex = Val(dest).accountIndex
      preMatch == Find(tx.pre, IsPre)
      postAmount == Val(dest).amount
      preAmount == IF IsNull(preMatch) THEN 0 ELSE Val(preMatch).amount
      delta == postAmount - preAmount
  IN  IF tx.down THEN [err |-> "rpc_failed", amountAtomic |-> 0]
      ELSE IF ~tx.found THEN [err |-> "transaction_not_found", amountAtomic |-> 0]
      ELSE IF tx.err THEN [err |-> "transaction_failed", amountAtomic |-> 0]
      ELSE IF IsNull(dest) THEN [err |-> "destination_not_involved", amountAtomic |-> 0]
      ELSE IF delta <= 0 THEN [err |-> "no_deposit_detected", amountAtomic |-> 0]
      ELSE [err |-> "", amountAtomic |-> delta]

\* formatPaymentRow that drops consumed_at.
formatPaymentRowNoConsumedAt(row) ==
  [ id |-> row.id, txSig |-> row.tx_sig, payer |-> row.payer,
    purpose |-> row.purpose,
    tokenAmountAtomic |-> toString(BigInt(row.token_amount_atomic)),
    status |-> row.status, consumedAt |-> Null ]

formatPaymentRow(row) ==
  [ id |-> row.id, txSig |-> row.tx_sig, payer |-> row.payer,
    purpose |-> row.purpose,
    tokenAmountAtomic |-> toString(BigInt(row.token_amount_atomic)),
    status |-> row.status, consumedAt |-> row.consumed_at ]

\* ------------------------------------------------------ the store's rules

\* payments without the UNIQUE constraint on tx_sig.
PaymentsInsertErrorNoUnique(row) ==
  IF IsNull(row.payer) THEN "not_null_violation"
  ELSE IF \E r \in payments : r.id = row.id THEN "unique_violation"
  ELSE ""

\* payments: tx_sig TEXT UNIQUE NOT NULL, payer TEXT NOT NULL.  The error an
\* INSERT of row raises, "" when the row is accepted.
PaymentsInsertError(row) ==
  IF IsNull(row.payer) THEN "not_null_violation"
  ELSE IF \E r \in payments : r.tx_sig = row.tx_sig \/ r.id = row.id
       THEN "unique_violation"
  ELSE ""

\* A SELECT without FOR UPDATE: it never waits.
RowLockNeverWaits(p, id) == TRUE

\* SELECT ... FOR UPDATE waits while another transaction holds the row lock.
RowLockFree(p, id) == \A q \in Procs \ {p} : proc[q].lock # Some(id)

\* repos: UNIQUE(owner, name).  An INSERT waits while another transaction
\* holds an uncommitted row with the same key.
ReposKeyPending(p, owner, name) ==
  \E q \in Procs \ {p} :
    /\ ~IsNull(proc[q].wRepo)
    /\ Val(proc[q].wRepo).owner = owner
    /\ Val(proc[q].wRepo).name = name

\* repos without UNIQUE(owner, name): no insert finds its key taken.
ReposKeyNeverTaken(owner, name) == FALSE

ReposKeyTaken(owner, name) ==
  \E r \in repos : r.owner = owner /\ r.name = name

RepoIds ==
  {r.id : r \in repos} \cup
  {Val(proc[q].wRepo).id : q \in {x \in Procs : ~IsNull(proc[x].wRepo)}}

OtpIds ==
  {r.id : r \in otp_tokens} \cup
  {Val(proc[q].wOtp).id : q \in {x \in Procs : ~IsNull(proc[x].wOtp)}}

\* A lookup by owner and name that finds no repo.
getRepoByOwnerAndNameFindsNone(owner, name) == Null

getRepoByOwnerAndName(owner, name) ==
  LET rows == {r \in repos : Some(r.owner) = owner /\ Some(r.name) = name}
  IN  IF IsNull(owner) \/ IsNull(name) \/ rows = {} THEN Null
      ELSE Some(CHOOSE r \in rows : TRUE)

getRepoById(repoId) ==
  LET rows == {r \in repos : Some(r.id) = repoId}
  IN  IF rows = {} THEN Null ELSE Some(CHOOSE r \in rows : TRUE)

\* A COMMIT whose UPDATE payments SET consumed_at = NOW() has no WHERE.
CommitTablesAllRows(r) ==
  [ payments |->
      IF r.wConsumed
      THEN {[row EXCEPT !.consumed_at = r.txStart] : row \in payments}
      ELSE payments,
    repos |-> IF IsNull(r.wRepo) THEN repos ELSE repos \cup {Val(r.wRepo)},
    otp_tokens |->
      IF IsNull(r.wOtp) THEN otp_tokens ELSE otp_tokens \cup {Val(r.wOtp)} ]

\* COMMIT: the transaction's write set reaches the tables.
CommitTables(r) ==
  [ payments |->
      IF r.wConsumed
      THEN {IF Some(row.id) = r.payment
            THEN [row EXCEPT !.consumed_at = r.txStart] ELSE row : row \in payments}
      ELSE payments,
    repos |-> IF IsNull(r.wRepo) THEN repos ELSE repos \cup {Val(r.wRepo)},
    otp_tokens |->
      IF IsNull(r.wOtp) THEN otp_tokens ELSE otp_tokens \cup {Val(r.wOtp)} ]

\* A catch block that sends COMMIT instead of ROLLBACK.
RollbackKeepsWrites(r) == CommitTables(r)

\* ROLLBACK: the transaction's write set is dropped.
RollbackTables(r) ==
  [ payments |-> payments, repos |-> repos, otp_tokens |-> otp_tokens ]

\* ConsumeCheck without the consumed_at test.
ConsumeCheckIgnoresConsumed(payment, purpose) ==
  IF payment.purpose # purpose THEN "payment_wrong_purpose"
  ELSE IF payment.status # "confirmed" THEN "payment_not_confirmed"
  ELSE ""

\* ConsumeCheck without the purpose test.
ConsumeCheckAnyPurpose(payment, purpose) ==
  IF payment.status # "confirmed" THEN "payment_not_confirmed"
  ELSE IF ~IsNull(payment.consumed_at) THEN "payment_already_consumed"
  ELSE ""

\* The checks both payment-gated handlers make on the locked payments row:
\* the message of the error thrown, "" when the row may be consumed.
ConsumeCheck(payment, purpose) ==
  IF payment.purpose # purpose THEN "payment_wrong_purpose"
  ELSE IF payment.status # "confirmed" THEN "payment_not_confirmed"
  ELSE IF ~IsNull(payment.consumed_at) THEN "payment_already_consumed"
  ELSE ""

\* --------------------------------------------------- POST /payments/verify

\* A replay that does not compare purposes.
VerifyExistingCheckAnyPurpose(row, purpose) == ""

\* if (row.purpose !== purpose): the error answered for a recorded payment,
\* "" when it is replayed.
VerifyExistingCheck(row, purpose) ==
  IF row.purpose # purpose THEN "purpose_mismatch" ELSE ""

\* A handler that sends BEGIN before its SELECT and asks the ledger inside
\* the transaction.
VerifySelectInTransaction(p, txSig, payer, purposeArg) ==
  LET purpose == IF IsNull(purposeArg) THEN "repo_init" ELSE Val(purposeArg)
      r0 == [Idle EXCEPT !.op = "verify", !.txSig = txSig, !.payer = payer,
                         !.purpose = purpose]
      existing == {r \in payments : r.tx_sig = txSig}
      row == CHOOSE r \in existing : TRUE
      confirmed == [row EXCEPT !.status = "confirmed"]
  IN  /\ Free(p)
      /\ IF existing # {}
         THEN IF VerifyExistingCheck(row, purpose) # ""
              THEN /\ Set(p, Done(r0, VerifyExistingCheck(row, purpose), Null))
                   /\ UNCHANGED payments
              ELSE /\ payments' = (payments \ {row}) \cup {confirmed}
                   /\ Set(p, Done(r0, "reused", Some(formatPaymentRow(confirmed))))
         ELSE /\ Set(p, [r0 EXCEPT !.pc = "v_chain", !.txStart = Some(now)])
              /\ UNCHANGED payments
      /\ UNCHANGED <<repos, otp_tokens, multisig_pushes, multisig_signatures,
                     now, hist, pushes, helper>>

\* The handler's first statement: SELECT * FROM payments WHERE tx_sig = $1.
\* purposeArg is the body's purpose, Null when the body has none.
VerifySelect(p, txSig, payer, purposeArg) ==
  LET purpose == IF IsNull(purposeArg) THEN "repo_init" ELSE Val(purposeArg)
      r0 == [Idle EXCEPT !.op = "verify", !.txSig = txSig, !.payer = payer,
                         !.purpose = purpose]
      existing == {r \in payments : r.tx_sig = txSig}
      row == CHOOSE r \in existing : TRUE
      confirmed == [row EXCEPT !.status = "confirmed"]
  IN  /\ Free(p)
      /\ IF existing # {}
         THEN IF VerifyExistingCheck(row, purpose) # ""
              THEN /\ Set(p, Done(r0, VerifyExistingCheck(row, purpose), Null))
                   /\ UNCHANGED payments
              ELSE /\ payments' = (payments \ {row}) \cup {confirmed}
                   /\ Set(p, Done(r0, "reused", Some(formatPaymentRow(confirmed))))
         ELSE /\ Set(p, [r0 EXCEPT !.pc = "v_chain"])
              /\ UNCHANGED payments
      /\ UNCHANGED <<repos, otp_tokens, multisig_pushes, multisig_signatures,
                     now, hist, pushes, helper>>

\* A handler that records the payment as pending before it asks the ledger.
VerifyChainRecordsPending(p) ==
  LET r == proc[p]
      chainInfo == verifyTokenPayment(r.txSig)
      row == [ id |-> randomUUID({x.id : x \in payments}),
               tx_sig |-> r.txSig, payer |-> r.payer, purpose |-> r.purpose,
               token_amount_atomic |-> toString(0),
               status |-> "pending", consumed_at |-> Null ]
  IN  /\ r.pc = "v_chain"
      /\ IF chainInfo.err # ""
         THEN /\ Set(p, Done(r, chainInfo.err, Null))
              /\ payments' = IF PaymentsInsertError(row) = ""
                             THEN payments \cup {row} ELSE payments
         ELSE IF chainInfo.amountAtomic < MIN_PAYMENT_ATOMIC
         THEN /\ Set(p, Done(r, "insufficient_amount", Null))
              /\ UNCHANGED payments
         ELSE /\ Set(p, [r EXCEPT !.pc = "v_insert", !.amount = chainInfo.amountAtomic])
              /\ UNCHANGED payments
      /\ UNCHANGED <<repos, otp_tokens, multisig_pushes, multisig_signatures,
                     now, hist, pushes, helper>>

\* const chainInfo = await verifyTokenPayment(txSig), then the minimum check.
VerifyChain(p) ==
  LET r == proc[p]
      chainInfo == verifyTokenPayment(r.txSig)
  IN  /\ r.pc = "v_chain"
      /\ IF chainInfo.err # ""
         THEN Set(p, Done(r, chainInfo.err, Null))
         ELSE IF chainInfo.amountAtomic < MIN_PAYMENT_ATOMIC
         THEN Set(p, Done(r, "insufficient_amount", Null))
         ELSE Set(p, [r EXCEPT !.pc = "v_insert", !.amount = chainInfo.amountAtomic])
      /\ UNCHANGED <<tables, now, hist, helper>>

\* An INSERT that names no status: the row takes the column default.
VerifyInsertPending(p) ==
  LET r == proc[p]
      row == [ id |-> randomUUID({x.id : x \in payments}),
               tx_sig |-> r.txSig, payer |-> r.payer,
               purpose |-> r.purpose,
               token_amount_atomic |-> toString(r.amount),
               status |-> "pending", consumed_at |-> Null ]
      e == PaymentsInsertError(row)
  IN  /\ r.pc = "v_insert"
      /\ IF e # ""
         THEN /\ Set(p, Done(r, e, Null))
              /\ UNCHANGED payments
         ELSE /\ payments' = payments \cup {row}
              /\ Set(p, Done(r, "ok", Some(formatPaymentRow(row))))
      /\ UNCHANGED <<repos, otp_tokens, multisig_pushes, multisig_signatures,
                     now, hist, pushes, helper>>

\* INSERT INTO payments (...) VALUES (..., 'confirmed', ...) RETURNING *.
VerifyInsert(p) ==
  LET r == proc[p]
      row == [ id |-> randomUUID({x.id : x \in payments}),
               tx_sig |-> r.txSig, payer |-> r.payer,
               purpose |-> r.purpose,
               token_amount_atomic |-> toString(r.amount),
               status |-> "confirmed", consumed_at |-> Null ]
      e == PaymentsInsertError(row)
  IN  /\ r.pc = "v_insert"
      /\ IF e # ""
         THEN /\ Set(p, Done(r, e, Null))
              /\ UNCHANGED payments
         ELSE /\ payments' = payments \cup {row}
              /\ Set(p, Done(r, "ok", Some(formatPaymentRow(row))))
      /\ UNCHANGED <<repos, otp_tokens, multisig_pushes, multisig_signatures,
                     now, hist, pushes, helper>>

\* ------------------------------------------- the consume transaction steps

\* A handler without catch and finally: the error leaves the handler, and
\* the connection stays checked out with its transaction open.
ThrownWithoutCatch(r, message) ==
  [Idle EXCEPT !.op = r.op, !.pc = "leaked", !.txSig = r.txSig,
               !.payment = r.payment, !.txStart = r.txStart, !.lock = r.lock,
               !.wRepo = r.wRepo, !.wOtp = r.wOtp, !.wConsumed = r.wConsumed,
               !.signer = r.signer,
               !.pushTx = IF r.op \in {"approve", "pushlog"} THEN r.pushTx ELSE "",
               !.pushLock = r.pushLock, !.wSig = r.wSig,
               !.late = r.late, !.err = message]

\* An error thrown inside try: control is in the catch block, about to send
\* ROLLBACK; the transaction still holds its lock and its write set.
Thrown(r, message) ==
  [Idle EXCEPT !.op = r.op, !.pc = "rollback", !.txSig = r.txSig,
               !.payment = r.payment, !.txStart = r.txStart, !.lock = r.lock,
               !.wRepo = r.wRepo, !.wOtp = r.wOtp, !.wConsumed = r.wConsumed,
               !.signer = r.signer,
               !.pushTx = IF r.op \in {"approve", "pushlog"} THEN r.pushTx ELSE "",
               !.pushLock = r.pushLock, !.wSig = r.wSig,
               !.late = r.late, !.err = message]

\* SELECT * FROM payments WHERE tx_sig = $1 FOR UPDATE, and the checks on
\* the row; an error thrown is carried to the catch block's ROLLBACK.
ConsumeLock(p, purpose, nextPc) ==
  LET r == proc[p]
      rows == {x \in payments : x.tx_sig = r.txSig}
      payment == CHOOSE x \in rows : TRUE
      e == ConsumeCheck(payment, purpose)
  IN  IF rows = {}
      THEN Set(p, Thrown(r, "payment_not_found"))
      ELSE /\ RowLockFree(p, payment.id)
           /\ IF e # ""
              THEN Set(p, Thrown([r EXCEPT !.lock = Some(payment.id)], e))
              ELSE Set(p, [r EXCEPT !.pc = nextPc, !.payment = Some(payment.id),
                                    !.lock = Some(payment.id)])

\* UPDATE payments SET consumed_at = NOW() WHERE id = $1, then COMMIT.  The
\* two statements are one step: the update stays in the write set of a
\* transaction that holds the row lock, so no other request can tell the
\* instant between them.  fault: the store fails the UPDATE.
ConsumeCommit(p, fault, response) ==
  LET r == proc[p]
      t == CommitTables([r EXCEPT !.wConsumed = TRUE])
  IN  IF fault
      THEN /\ Set(p, Thrown(r, "store_error"))
           /\ UNCHANGED <<tables, now, hist, helper>>
      ELSE /\ payments' = t.payments
           /\ repos' = t.repos
           /\ otp_tokens' = t.otp_tokens
           /\ granted' = [granted EXCEPT ![r.txSig] = @ + 1]
           /\ Set(p, Done(r, "ok", response))
           /\ UNCHANGED <<multisig_pushes, multisig_signatures, now, setupDone, pushes, helper>>

Rollback(p) ==
  LET r == proc[p]
      t == RollbackTables(r)
  IN  /\ r.pc = "rollback"
      /\ payments' = t.payments
      /\ repos' = t.repos
      /\ otp_tokens' = t.otp_tokens
      /\ Set(p, Done(r, r.err, Null))
      /\ UNCHANGED <<multisig_pushes, multisig_signatures, now, hist, pushes, helper>>

\* ------------------------------------------------------------ POST /repos

\* Validation, the threshold, getPool().connect() and BEGIN.  "" stands for
\* a field that is absent, empty or no string.
RegBegin(p, name, owner, signers, threshold, paymentTxSig) ==
  LET signerList == parseSigners(signers)
      computedThreshold == calcThreshold(signerList, threshold)
      r0 == [Idle EXCEPT !.op = "register", !.txSig = paymentTxSig]
  IN  /\ Free(p)
      /\ IF name = "" THEN Set(p, Done(r0, "name_required", Null))
         ELSE IF owner = "" THEN Set(p, Done(r0, "owner_required", Null))
         ELSE IF paymentTxSig = ""
         THEN Set(p, Done(r0, "payment_required", Null))
         ELSE Set(p, [r0 EXCEPT !.pc = "r_lock",
                                !.name = Some(name), !.owner = Some(owner),
                                !.signers = signerList,
                                !.reqThreshold = threshold,
                                !.threshold = computedThreshold,
                                !.txStart = Some(now),
                                !.late = granted[paymentTxSig] > 0])
      /\ UNCHANGED <<tables, now, hist, helper>>

RegLock(p) ==
  /\ proc[p].op = "register"
  /\ proc[p].pc = "r_lock"
  /\ ConsumeLock(p, "repo_init", "r_insert")
  /\ UNCHANGED <<tables, now, hist, helper>>

\* INSERT INTO repos ... ON CONFLICT (owner, name) DO NOTHING RETURNING *
RegInsert(p) ==
  LET r == proc[p]
      row == [ id |-> randomUUID(RepoIds), name |-> Val(r.name),
               owner |-> Val(r.owner), is_multisig |-> Len(r.signers) > 0,
               threshold |-> IntegerColumn(r.threshold), signers |-> r.signers,
               payment_tx |-> Some(r.txSig) ]
  IN  /\ r.op = "register"
      /\ r.pc = "r_insert"
      /\ IF IntegerColumnError(r.threshold) # ""
         THEN Set(p, Thrown(r, IntegerColumnError(r.threshold)))
         ELSE /\ ~ReposKeyPending(p, Val(r.owner), Val(r.name))
              /\ IF ReposKeyTaken(Val(r.owner), Val(r.name))
                 THEN Set(p, Thrown(r, "repo_exists"))
                 ELSE Set(p, [r EXCEPT !.pc = "r_commit", !.wRepo = Some(row)])
      /\ UNCHANGED <<tables, now, hist, helper>>

RegCommit(p, fault) ==
  /\ proc[p].op = "register"
  /\ proc[p].pc = "r_commit"
  /\ ConsumeCommit(p, fault, Null)

RegRollback(p) ==
  /\ proc[p].op = "register"
  /\ Rollback(p)

\* ------------------------------------------------------ POST /otp/request

\* Validation and the repo lookup, by id when repoId is given and else by
\* owner and name.
IssueLookup(p, repoId, owner, name, bundleTx, paymentTxSig, decryptKey, expiresInMinutes) ==
  LET repo == IF ~IsNull(repoId) THEN getRepoById(repoId)
              ELSE getRepoByOwnerAndName(owner, name)
      r0 == [Idle EXCEPT !.op = "issue", !.txSig = paymentTxSig,
                         !.bundleTx = bundleTx, !.key = decryptKey, !.ttl = expiresInMinutes,
                         !.late = granted[paymentTxSig] > 0]
  IN  /\ Free(p)
      /\ IF IsNull(repo)
         THEN Set(p, Done(r0, "repo_not_found", Null))
         ELSE Set(p, [r0 EXCEPT !.pc = "i_begin", !.repo = Some(Val(repo).id)])
      /\ UNCHANGED <<tables, now, hist, helper>>

\* getPool().connect() and BEGIN
IssueBegin(p) ==
  /\ proc[p].pc = "i_begin"
  /\ Set(p, [proc[p] EXCEPT !.pc = "i_lock", !.txStart = Some(now)])
  /\ UNCHANGED <<tables, now, hist, helper>>

IssueLock(p) ==
  /\ proc[p].op = "issue"
  /\ proc[p].pc = "i_lock"
  /\ ConsumeLock(p, "otp_share", "i_insert")
  /\ UNCHANGED <<tables, now, hist, helper>>

\* 60 * 24
DefaultTtlMinutes == 1440

\* A handler that takes every number the caller gives as the ttl.
ttlMinutesAnyNumber(expiresInMinutes) ==
  IF ~IsNull(expiresInMinutes) THEN Val(expiresInMinutes)
  ELSE DefaultTtlMinutes

\* typeof expiresInMinutes === "number" && expiresInMinutes > 0
\*   ? expiresInMinutes : 60 * 24.  Null is a body whose expiresInMinutes is
\* absent or is no number.
ttlMinutes(expiresInMinutes) ==
  IF ~IsNull(expiresInMinutes) /\ Val(expiresInMinutes) > 0
  THEN Val(expiresInMinutes)
  ELSE DefaultTtlMinutes

\* INSERT INTO otp_tokens (...).  otp is randomBytes(16), generated is the
\* randomBytes(32) key used when the caller gave no decryptKey.
IssueInsert(p, otp, generated, fault) ==
  LET r == proc[p]
      key == IF ~IsNull(r.key) /\ Val(r.key) # "" THEN Val(r.key) ELSE generated
      expiresAt == now + ttlMinutes(r.ttl)
      row == [ id |-> randomUUID(OtpIds), repo_id |-> Val(r.repo),
               payment_tx |-> Some(r.txSig), otp_plain |-> otp,
               decrypt_key |-> key, bundle_tx |-> r.bundleTx,
               expires_at |-> Some(expiresAt),
               used_at |-> Null ]
  IN  /\ r.op = "issue"
      /\ r.pc = "i_insert"
      /\ IF fault
         THEN Set(p, Thrown(r, "store_error"))
         ELSE Set(p, [r EXCEPT !.pc = "i_commit", !.wOtp = Some(row)])
      /\ UNCHANGED <<tables, now, hist, helper>>

\* The UPDATE of the payment, COMMIT and res.json({otp, decryptKey,
\* bundleTx, expiresAt}), built from the handler's locals.
IssueCommit(p, fault) ==
  LET row == Val(proc[p].wOtp)
  IN  /\ proc[p].op = "issue"
      /\ proc[p].pc = "i_commit"
      /\ ConsumeCommit(p, fault, Some([ otp |-> row.otp_plain,
                                        decryptKey |-> row.decrypt_key,
                                        bundleTx |-> row.bundle_tx,
                                        expiresAt |-> Val(row.expires_at) ]))

IssueRollback(p) ==
  /\ proc[p].op = "issue"
  /\ Rollback(p)

\* ------------------------------------------------------- POST /otp/redeem

\* An UPDATE ... WHERE id = $1 that leaves out AND used_at IS NULL.
RedeemUpdateHitsAny(row) == TRUE

\* WHERE id = $1 AND used_at IS NULL, for the row with the id.
RedeemUpdateHits(row) == IsNull(row.used_at)

\* The checks on the row read: the error answered, "" when the handler goes
\* on to the UPDATE.  Date.now() is the minute now.
RedeemCheck(row) ==
  IF ~IsNull(row.used_at) THEN "otp_already_used"
  ELSE IF ~IsNull(row.expires_at) /\ Val(row.expires_at) < now THEN "otp_expired"
  ELSE ""

\* SELECT * FROM otp_tokens WHERE otp_plain = $1 LIMIT 1, and the checks.
\* otp_plain is not unique: any row with the token may be the one returned.
RedeemSelect(p, otp) ==
  LET r0 == [Idle EXCEPT !.op = "redeem", !.otp = otp]
      rows == {x \in otp_tokens : x.otp_plain = otp}
  IN  /\ Free(p)
      /\ IF rows = {}
         THEN Set(p, Done(r0, "otp_not_found", Null))
         ELSE \E row \in rows :
                IF RedeemCheck(row) # ""
                THEN Set(p, Done(r0, RedeemCheck(row), Null))
                ELSE Set(p, [r0 EXCEPT !.pc = "d_update", !.ticket = Some(row)])
      /\ UNCHANGED <<tables, now, hist, helper>>

\* UPDATE otp_tokens SET used_at = NOW() WHERE id = $1 AND used_at IS NULL,
\* and the response, built from the row read by the SELECT.
RedeemUpdate(p) ==
  LET r == proc[p]
      row == Val(r.ticket)
      hits == {x \in otp_tokens : x.id = row.id /\ RedeemUpdateHits(x)}
  IN  /\ r.pc = "d_update"
      /\ otp_tokens' = (otp_tokens \ hits) \cup
                       {[x EXCEPT !.used_at = Some(now)] : x \in hits}
      /\ IF hits = {}
         THEN Set(p, Done(r, "otp_already_used", Null))
         ELSE Set(p, Done(r, "ok", Some([ repoId |-> row.repo_id,
                                          bundleTx |-> row.bundle_tx,
                                          decryptKey |-> row.decrypt_key ])))
      /\ UNCHANGED <<payments, repos, multisig_pushes, multisig_signatures,
                     now, hist, pushes, helper>>

\* ------------------------------------------------- ensureMultisigEntry

MultisigPushIds == {r.id : r \in multisig_pushes}

\* The threshold ensureMultisigEntry registers for repo, Null when it
\* returns before the INSERT (no repo, not multisig, no threshold).
ensureThreshold(repo) ==
  IF IsNull(repo) \/ ~Val(repo).is_multisig THEN Null
  ELSE calcThreshold(Val(repo).signers, IntegerValue(Val(repo).threshold))

\* A plain INSERT into a multisig_pushes table without UNIQUE(repo_id,
\* push_tx).
ensureInsertNoConflict(repo, pushTx) ==
  LET threshold == ensureThreshold(repo)
      row == [ id |-> randomUUID(MultisigPushIds), repo_id |-> Val(repo).id,
               push_tx |-> pushTx, status |-> "pending",
               approvals_required |-> Whole(Val(threshold)), approvals_count |-> 0,
               approved_at |-> Null ]
  IN  IF IsNull(threshold) THEN multisig_pushes
      ELSE multisig_pushes \cup {row}

\* An INSERT ... ON CONFLICT (repo_id, push_tx) DO UPDATE SET
\* approvals_required = EXCLUDED.approvals_required.
ensureInsertOverwrites(repo, pushTx) ==
  LET threshold == ensureThreshold(repo)
      row == [ id |-> randomUUID(MultisigPushIds), repo_id |-> Val(repo).id,
               push_tx |-> pushTx, status |-> "pending",
               approvals_required |-> Whole(Val(threshold)), approvals_count |-> 0,
               approved_at |-> Null ]
  IN  IF IsNull(threshold) THEN multisig_pushes
      ELSE IF \E r \in multisig_pushes :
                r.repo_id = row.repo_id /\ r.push_tx = row.push_tx
           THEN {IF r.repo_id = row.repo_id /\ r.push_tx = row.push_tx
                 THEN [r EXCEPT !.approvals_required = row.approvals_required]
                 ELSE r : r \in multisig_pushes}
      ELSE multisig_pushes \cup {row}

\* INSERT INTO multisig_pushes (...) ON CONFLICT (repo_id, push_tx) DO NOTHING:
\* the table after the statement.
ensureInsert(repo, pushTx) ==
  LET threshold == ensureThreshold(repo)
      row == [ id |-> randomUUID(MultisigPushIds), repo_id |-> Val(repo).id,
               push_tx |-> pushTx, status |-> "pending",
               approvals_required |-> Whole(Val(threshold)), approvals_count |-> 0,
               approved_at |-> Null ]
  IN  IF IsNull(threshold) THEN multisig_pushes
      ELSE IF \E r \in multisig_pushes :
                r.repo_id = row.repo_id /\ r.push_tx = row.push_tx
           THEN multisig_pushes
      ELSE multisig_pushes \cup {row}

\* --------------------------------------------------- POST /multisig/setup

\* The checks /multisig/setup makes on the payments row it read (without a
\* lock): the error answered, "" when the handler goes on.
SetupPaymentCheck(payment) ==
  IF payment.purpose # "multisig_setup" THEN "payment_wrong_purpose"
  ELSE IF payment.status # "confirmed" THEN "payment_not_confirmed"
  ELSE ""

\* Validation, the threshold, and SELECT * FROM payments WHERE tx_sig = $1.
SetupPayment(p, repoId, owner, name, pushTx, signers, threshold, paymentTxSig) ==
  LET signerList == parseSigners(signers)
      computedThreshold == calcThreshold(signerList, threshold)
      r0 == [Idle EXCEPT !.op = "setup", !.txSig = paymentTxSig,
                         !.late = paymentTxSig \in setupDone]
      rows == {x \in payments : x.tx_sig = paymentTxSig}
      payment == CHOOSE x \in rows : TRUE
  IN  /\ Free(p)
      /\ IF Len(signerList) = 0
         THEN Set(p, Done(r0, "signers_required", Null))
         ELSE IF IsNull(computedThreshold)
         THEN Set(p, Done(r0, "invalid_threshold", Null))
         ELSE IF rows = {}
         THEN Set(p, Done(r0, "payment_not_found", Null))
         ELSE IF SetupPaymentCheck(payment) # ""
         THEN Set(p, Done(r0, SetupPaymentCheck(payment), Null))
         ELSE Set(p, [r0 EXCEPT !.pc = "s_find", !.repo = repoId,
                                !.owner = owner, !.name = name,
                                !.pushTx = pushTx, !.signers = signerList,
                                !.threshold = computedThreshold])
      /\ UNCHANGED <<tables, now, hist, helper>>

\* The repo lookup: by id when repoId is given, then by owner and name.  In
\* s_find the field repo holds the request's repoId.
SetupFind(p) ==
  LET r == proc[p]
      byId == IF IsNull(r.repo) THEN Null ELSE getRepoById(r.repo)
      repo == IF ~IsNull(byId) THEN byId
              ELSE getRepoByOwnerAndName(r.owner, r.name)
  IN  /\ r.pc = "s_find"
      /\ IF ~IsNull(repo)
         THEN Set(p, [r EXCEPT !.pc = "s_update", !.repo = Some(Val(repo).id),
                               !.owner = Null, !.name = Null])
         ELSE IF IsNull(r.owner) \/ IsNull(r.name)
         THEN Set(p, Done(r, "repo_identification_required", Null))
         ELSE Set(p, [r EXCEPT !.pc = "s_insert", !.repo = Null])
      /\ UNCHANGED <<tables, now, hist, helper>>

\* INSERT INTO repos (...) VALUES ($1, $2, $3, false, true, $4, $5, $6)
SetupInsert(p) ==
  LET r == proc[p]
      row == [ id |-> randomUUID(RepoIds), name |-> Val(r.name),
               owner |-> Val(r.owner), is_multisig |-> TRUE,
               threshold |-> IntegerColumn(r.threshold), signers |-> r.signers,
               payment_tx |-> Some(r.txSig) ]
  IN  /\ r.pc = "s_insert"
      /\ IF IntegerColumnError(r.threshold) # ""
         THEN /\ Set(p, Done(r, IntegerColumnError(r.threshold), Null))
              /\ UNCHANGED repos
         ELSE /\ ~ReposKeyPending(p, Val(r.owner), Val(r.name))
              /\ IF ReposKeyTaken(Val(r.owner), Val(r.name))
                 THEN /\ Set(p, Done(r, "unique_violation", Null))
                      /\ UNCHANGED repos
                 ELSE /\ repos' = repos \cup {row}
                      /\ Set(p, [r EXCEPT !.pc = "s_ensure", !.repo = Some(row),
                                          !.owner = Null, !.name = Null,
                                          !.signers = <<>>, !.threshold = Null])
      /\ UNCHANGED <<payments, otp_tokens, multisig_pushes, multisig_signatures,
                     now, hist, pushes, helper>>

\* UPDATE repos SET is_multisig = true, threshold = $1, signers = $2,
\*   payment_tx = COALESCE(payment_tx, $3) WHERE id = $4
SetupUpdate(p) ==
  LET r == proc[p]
      Upd(row) == [row EXCEPT !.is_multisig = TRUE,
                              !.threshold = IntegerColumn(r.threshold),
                              !.signers = r.signers,
                              !.payment_tx = IF IsNull(@) THEN Some(r.txSig) ELSE @]
  IN  /\ r.pc = "s_update"
      /\ IF IntegerColumnError(r.threshold) # ""
         THEN /\ Set(p, Done(r, IntegerColumnError(r.threshold), Null))
              /\ UNCHANGED repos
         ELSE /\ repos' = {IF Some(row.id) = r.repo THEN Upd(row) ELSE row :
                           row \in repos}
              /\ Set(p, [r EXCEPT !.pc = "s_refresh", !.signers = <<>>,
                                  !.threshold = Null])
      /\ UNCHANGED <<payments, otp_tokens, multisig_pushes, multisig_signatures,
                     now, hist, pushes, helper>>

\* SELECT * FROM repos WHERE id = $1
SetupRefresh(p) ==
  LET r == proc[p]
  IN  /\ r.pc = "s_refresh"
      /\ Set(p, [r EXCEPT !.pc = "s_ensure", !.repo = getRepoById(r.repo)])
      /\ UNCHANGED <<tables, now, hist, helper>>

\* ensureMultisigEntry(repo, pushTx): the INSERT
SetupEnsure(p) ==
  LET r == proc[p]
  IN  /\ r.pc = "s_ensure"
      /\ multisig_pushes' = ensureInsert(r.repo, r.pushTx)
      /\ Set(p, [r EXCEPT !.pc = "s_select"])
      /\ UNCHANGED <<payments, repos, otp_tokens, multisig_signatures, now, hist, pushes, helper>>

\* ensureMultisigEntry(repo, pushTx): the SELECT, and the response
SetupSelect(p) ==
  LET r == proc[p]
  IN  /\ r.pc = "s_select"
      /\ Set(p, Done(r, "ok", Null))
      /\ setupDone' = setupDone \cup {r.txSig}
      /\ UNCHANGED <<tables, now, granted, helper>>

\* ------------------------------------------------ POST /multisig/approve

\* The bytes a signer signs: `Permagit Push Approval:${txId}`.
ApprovalMessage(txId) == <<"Permagit Push Approval:", txId>>

\* A detached signature is held as the key that made it and the message it
\* was made over.
Sign(key, message) == [key |-> key, message |-> message]

\* A verification that checks the key only, not the message signed.
verifyApprovalSignatureAnyMessage(txId, signer, signatureB64) ==
  IF txId = "" \/ signer = "" \/ IsNull(signatureB64)
  THEN "missing_signature_fields"
  ELSE IF Val(signatureB64).key # signer
  THEN "signature_verification_failed"
  ELSE ""

\* The error verifyApprovalSignature throws, "" when the signature verifies.
\* "" stands for a missing field; every signer of the model is a public key.
verifyApprovalSignature(txId, signer, signatureB64) ==
  IF txId = "" \/ signer = "" \/ IsNull(signatureB64)
  THEN "missing_signature_fields"
  ELSE IF Val(signatureB64) # Sign(signer, ApprovalMessage(txId))
  THEN "signature_verification_failed"
  ELSE ""

\* A push row lock that never makes a transaction wait.
PushLockNeverWaits(p, id) == TRUE

\* A row lock on multisig_pushes row id is free for p when no other
\* transaction holds it.
PushLockFree(p, id) == \A q \in Procs \ {p} : proc[q].pushLock # Some(id)

MultisigSignatureIds ==
  {s.id : s \in multisig_signatures} \cup
  {Val(proc[q].wSig).id : q \in {x \in Procs : ~IsNull(proc[x].wSig)}}

\* The signatures stored for a push.
SignaturesOf(pushId) ==
  {s \in multisig_signatures : s.multisig_push_id = Some(pushId)}

\* multisig_signatures: UNIQUE(multisig_push_id, signer).  An INSERT waits
\* while another transaction holds an uncommitted row with the same key.
SignaturesKeyPending(p, pushId, signer) ==
  \E q \in Procs \ {p} :
    /\ ~IsNull(proc[q].wSig)
    /\ Val(proc[q].wSig).multisig_push_id = Some(pushId)
    /\ Val(proc[q].wSig).signer = signer

\* A multisig_signatures table without the unique index.
SignaturesInsertErrorNoUnique(pushId, signer) == ""

\* The error of the INSERT INTO multisig_signatures as the handler rethrows
\* it: code 23505 becomes signature_already_submitted.
SignaturesInsertError(pushId, signer) ==
  IF \E s \in SignaturesOf(pushId) : s.signer = signer
  THEN "signature_already_submitted"
  ELSE ""

\* A test that wants one approval more than the push requires.
ApprovalReachedStrict(approvalsCount, push) ==
  approvalsCount > push.approvals_required /\ push.status # "approved"

\* if (approvalsCount >= push.approvals_required && push.status !== "approved")
ApprovalReached(approvalsCount, push) ==
  approvalsCount >= push.approvals_required /\ push.status # "approved"

\* An else branch that writes the status of a push that is not newly
\* approved back to pending.
ApproveUpdateResetsStatus(push, approvalsCount, at) ==
  IF ApprovalReached(approvalsCount, push)
  THEN [push EXCEPT !.status = "approved", !.approvals_count = approvalsCount,
                    !.approved_at = at]
  ELSE [push EXCEPT !.status = "pending", !.approvals_count = approvalsCount]

\* A first branch taken for a push that is approved already: approved_at is
\* written again.
ApproveUpdateRestamps(push, approvalsCount, at) ==
  IF approvalsCount >= push.approvals_required
  THEN [push EXCEPT !.status = "approved", !.approvals_count = approvalsCount,
                    !.approved_at = at]
  ELSE [push EXCEPT !.approvals_count = approvalsCount]

\* The two UPDATE multisig_pushes statements: the row after the UPDATE, at
\* the transaction's NOW().
ApproveUpdate(push, approvalsCount, at) ==
  IF ApprovalReached(approvalsCount, push)
  THEN [push EXCEPT !.status = "approved", !.approvals_count = approvalsCount,
                    !.approved_at = at]
  ELSE [push EXCEPT !.approvals_count = approvalsCount]

\* A handler that verifies the signature before it looks at the signer set.
ApproveBeginSignatureFirst(p, repoId, owner, name, txId, signer, signatureB64) ==
  LET r0 == [Idle EXCEPT !.op = "approve", !.pushTx = txId, !.signer = signer]
      repo == IF ~IsNull(repoId) THEN getRepoById(repoId)
              ELSE getRepoByOwnerAndName(owner, name)
      signers == Val(repo).signers
  IN  /\ Free(p)
      /\ IF txId = "" THEN Set(p, Done(r0, "txId_required", Null))
         ELSE IF signer = "" THEN Set(p, Done(r0, "signer_required", Null))
         ELSE IF IsNull(signatureB64)
         THEN Set(p, Done(r0, "signature_required", Null))
         ELSE IF IsNull(repo) \/ ~Val(repo).is_multisig
         THEN Set(p, Done(r0, "repo_not_multisig", Null))
         ELSE IF verifyApprovalSignature(txId, signer, signatureB64) # ""
         THEN Set(p, Done(r0, "signature_invalid", Null))
         ELSE IF \A i \in 1..Len(signers) : signers[i] # signer
         THEN Set(p, Done(r0, "signer_not_authorized", Null))
         ELSE Set(p, [r0 EXCEPT !.pc = "a_lock", !.repo = Some(Val(repo).id),
                                !.signature = signatureB64,
                                !.txStart = Some(now)])
      /\ UNCHANGED <<tables, now, hist, helper>>

\* Validation, the repo lookup (by id when repoId is given, else by owner
\* and name), the signer and signature checks, getPool().connect() and BEGIN.
ApproveBegin(p, repoId, owner, name, txId, signer, signatureB64) ==
  LET r0 == [Idle EXCEPT !.op = "approve", !.pushTx = txId, !.signer = signer]
      repo == IF ~IsNull(repoId) THEN getRepoById(repoId)
              ELSE getRepoByOwnerAndName(owner, name)
      signers == Val(repo).signers
  IN  /\ Free(p)
      /\ IF txId = "" THEN Set(p, Done(r0, "txId_required", Null))
         ELSE IF signer = "" THEN Set(p, Done(r0, "signer_required", Null))
         ELSE IF IsNull(signatureB64)
         THEN Set(p, Done(r0, "signature_required", Null))
         ELSE IF IsNull(repo) \/ ~Val(repo).is_multisig
         THEN Set(p, Done(r0, "repo_not_multisig", Null))
         ELSE IF \A i \in 1..Len(signers) : signers[i] # signer
         THEN Set(p, Done(r0, "signer_not_authorized", Null))
         ELSE IF verifyApprovalSignature(txId, signer, signatureB64) # ""
         THEN Set(p, Done(r0, "signature_invalid", Null))
         ELSE Set(p, [r0 EXCEPT !.pc = "a_lock", !.repo = Some(Val(repo).id),
                                !.signature = signatureB64,
                                !.txStart = Some(now)])
      /\ UNCHANGED <<tables, now, hist, helper>>

\* SELECT * FROM multisig_pushes WHERE repo_id = $1 AND push_tx = $2 FOR
\* UPDATE: waits for the row lock; with no row push_not_tracked is thrown.
ApproveLock(p) ==
  LET r == proc[p]
      rows == {x \in multisig_pushes :
                 x.repo_id = Val(r.repo) /\ x.push_tx = r.pushTx}
  IN  /\ r.pc = "a_lock"
      /\ IF rows = {}
         THEN Set(p, Thrown(r, "push_not_tracked"))
         ELSE \E push \in rows :
                /\ PushLockFree(p, push.id)
                /\ Set(p, [r EXCEPT !.pc = "a_insert", !.push = Some(push),
                                    !.pushLock = Some(push.id)])
      /\ UNCHANGED <<tables, now, hist, helper>>

\* INSERT INTO multisig_signatures (id, multisig_push_id, signer,
\* signature_b64)
ApproveInsert(p) ==
  LET r == proc[p]
      push == Val(r.push)
      row == [ id |-> randomUUID(MultisigSignatureIds),
               multisig_push_id |-> Some(push.id), signer |-> r.signer,
               signature_b64 |-> Val(r.signature) ]
  IN  /\ r.pc = "a_insert"
      /\ ~SignaturesKeyPending(p, push.id, r.signer)
      /\ IF SignaturesInsertError(push.id, r.signer) # ""
         THEN Set(p, Thrown(r, SignaturesInsertError(push.id, r.signer)))
         ELSE Set(p, [r EXCEPT !.pc = "a_tally", !.wSig = Some(row)])
      /\ UNCHANGED <<tables, now, hist, helper>>

\* A count that sees the committed rows only, not the transaction's own.
ApproveCountCommittedOnly(p) ==
  LET r == proc[p]
      push == Val(r.push)
  IN  /\ r.pc = "a_tally"
      /\ Set(p, [r EXCEPT !.pc = "a_count",
                          !.approvalsCount =
                            Cardinality(SignaturesOf(push.id))])
      /\ UNCHANGED <<tables, now, hist, helper>>

\* SELECT COUNT(*)::int FROM multisig_signatures WHERE multisig_push_id = $1:
\* the committed rows and the transaction's own.
ApproveCount(p) ==
  LET r == proc[p]
      push == Val(r.push)
  IN  /\ r.pc = "a_tally"
      /\ Set(p, [r EXCEPT !.pc = "a_count",
                          !.approvalsCount =
                            Cardinality(SignaturesOf(push.id) \cup {Val(r.wSig)})])
      /\ UNCHANGED <<tables, now, hist, helper>>

\* The UPDATE of the multisig_pushes row, COMMIT and the response.
ApproveCommit(p) ==
  LET r == proc[p]
      push == Val(r.push)
      approvalsCount == r.approvalsCount
      status == IF ApprovalReached(approvalsCount, push) THEN "approved"
                ELSE push.status
  IN  /\ r.pc = "a_count"
      /\ multisig_signatures' = multisig_signatures \cup {Val(r.wSig)}
      /\ multisig_pushes' =
           {IF x.id = push.id THEN ApproveUpdate(x, approvalsCount, r.txStart)
            ELSE x : x \in multisig_pushes}
      /\ Set(p, Done(r, "ok",
               Some([ status |-> status, approvalsCount |-> approvalsCount,
                      approvalsRequired |-> push.approvals_required ])))
      /\ UNCHANGED <<payments, repos, otp_tokens, now, hist, pushes, helper>>

\* catch: ROLLBACK, 400 multisig_approval_failed with the error's message.
ApproveRollback(p) ==
  /\ proc[p].op = "approve"
  /\ Rollback(p)

\* -------------------------------------------------------- POST /push-log

PushIds == {r.id : r \in pushes}

\* INSERT INTO pushes (...) ON CONFLICT (tx_id) DO NOTHING: the table after
\* the statement.  branch is absent and encrypted false in every request.
pushesInsert(repoRow, txId, owner, name) ==
  LET row == [ id |-> randomUUID(PushIds),
               repo_id |-> IF IsNull(repoRow) THEN Null
                           ELSE Some(Val(repoRow).id),
               tx_id |-> txId, owner |-> owner, repo |-> name,
               branch |-> Null, encrypted |-> FALSE ]
  IN  IF \E r \in pushes : r.tx_id = txId THEN pushes
      ELSE pushes \cup {row}

\* The multisig field of the /push-log response: what ensureMultisigEntry
\* returns, its SELECT run when the repo is multisig with a threshold.
multisigEntry(repo, pushTx) ==
  LET rows == {x \in multisig_pushes :
                 x.repo_id = Val(repo).id /\ x.push_tx = pushTx}
      entry == CHOOSE x \in rows : TRUE
  IN  IF IsNull(ensureThreshold(repo)) \/ rows = {} THEN Null
      ELSE Some([ status |-> entry.status,
                  approvalsRequired |-> entry.approvals_required,
                  approvalsCount |-> entry.approvals_count ])

\* Validation and getRepoByOwnerAndName(owner, repo).
PushLogBegin(p, txId, owner, name) ==
  LET r0 == [Idle EXCEPT !.op = "pushlog", !.pushTx = txId]
  IN  /\ Free(p)
      /\ IF txId = "" THEN Set(p, Done(r0, "txId required", Null))
         ELSE Set(p, [r0 EXCEPT !.pc = "l_insert", !.owner = owner,
                                !.name = name,
                                !.repo = getRepoByOwnerAndName(owner, name)])
      /\ UNCHANGED <<tables, now, hist, helper>>

\* INSERT INTO pushes
PushLogInsert(p) ==
  LET r == proc[p]
  IN  /\ r.pc = "l_insert"
      /\ pushes' = pushesInsert(r.repo, r.pushTx, r.owner, r.name)
      /\ Set(p, [r EXCEPT !.pc = "l_ensure"])
      /\ UNCHANGED <<payments, repos, otp_tokens, multisig_pushes,
                     multisig_signatures, now, hist, helper>>

\* ensureMultisigEntry(repoRow, txId, branch): the INSERT
PushLogEnsure(p) ==
  LET r == proc[p]
  IN  /\ r.pc = "l_ensure"
      /\ multisig_pushes' = ensureInsert(r.repo, r.pushTx)
      /\ Set(p, [r EXCEPT !.pc = "l_select"])
      /\ UNCHANGED <<payments, repos, otp_tokens, multisig_signatures, pushes,
                     now, hist, helper>>

\* ensureMultisigEntry(repoRow, txId, branch): the SELECT, and the response
PushLogSelect(p) ==
  LET r == proc[p]
  IN  /\ r.pc = "l_select"
      /\ Set(p, Done(r, "ok", Some([ok |-> TRUE,
                                     multisig |-> multisigEntry(r.repo, r.pushTx)])))
      /\ UNCHANGED <<tables, now, hist, helper>>

\* ------------------------------------------------------------------ clock

\* A minute passes, up to minute limit.
TickTo(limit) ==
  /\ now < limit
  /\ now' = now + 1
  /\ UNCHANGED <<tables, proc, hist, helper>>

Tick == TickTo(MaxTime)

\* --------------------------------------------------- git-remote-permagit

\* A line of stdin, trimmed: its command word and, for a push line, the
\* parts of the text after "push " split at ":".
Line(cmd, parts) == [cmd |-> cmd, parts |-> parts]

\* const [src, dst] = spec.split(":"), each with || "".
Part(parts, i) == IF Len(parts) >= i THEN parts[i] ELSE ""

RECURSIVE StatusLines(_, _)
\* for (const s of pushSpecs) writeLine((ok ? "ok " : "error ") + (s.dst ||
\* "permagit")): the lines written.
StatusLines(specs, ok) ==
  IF specs = <<>> THEN <<>>
  ELSE <<(IF ok THEN "ok " ELSE "error ") \o
         (IF Head(specs).dst # "" THEN Head(specs).dst ELSE "permagit")>>
       \o StatusLines(Tail(specs), ok)

\* A remote helper before any input: nothing buffered, no push spec, nothing
\* written, no child process, running.
HelperStart ==
  [ buffer |-> <<>>,     \* lines read and not yet handled
    pushSpecs |-> <<>>,
    stdout |-> <<>>,     \* lines written
    children |-> 0,      \* `permagit push` processes running
    spawned |-> 0,       \* history: `permagit push` processes started
    received |-> 0,      \* history: lines read
    ended |-> FALSE,     \* stdin has ended
    exit |-> Null ]      \* exit code, once the process has exited

RECURSIVE Drain(_)
\* The while loop of the data handler over the buffered lines: it stops at
\* `done` (return), at `quit` (process.exit) and when the buffer is empty.
Drain(h) ==
  IF h.buffer = <<>> THEN h
  ELSE LET line == Head(h.buffer)
           rest == [h EXCEPT !.buffer = Tail(@)]
       IN  IF line.cmd = "" THEN Drain(rest)
           ELSE IF line.cmd = "option"
           THEN Drain([rest EXCEPT !.stdout = Append(@, "ok")])
           ELSE IF line.cmd = "capabilities"
           THEN Drain([rest EXCEPT !.stdout = @ \o <<"push", "">>])
           ELSE IF line.cmd = "list"
           THEN Drain([rest EXCEPT !.stdout = Append(@, "")])
           ELSE IF line.cmd = "push"
           THEN Drain([rest EXCEPT !.pushSpecs =
                         Append(@, [src |-> Part(line.parts, 1),
                                    dst |-> Part(line.parts, 2)])])
           ELSE IF line.cmd = "done"
           THEN [rest EXCEPT !.children = @ + 1, !.spawned = @ + 1]
           ELSE IF line.cmd = "quit"
           THEN [rest EXCEPT !.exit = Some(0)]
           ELSE Drain(rest)

\* stdin.on("data"): a chunk of whole lines arrives, at most limit lines in
\* all.
HelperData(chunk, limit) ==
  /\ IsNull(helper.exit) /\ ~helper.ended
  /\ helper.received + Len(chunk) <= limit
  /\ helper' = Drain([helper EXCEPT !.buffer = @ \o chunk,
                                    !.received = @ + Len(chunk)])
  /\ UNCHANGED <<tables, proc, now, hist>>

\* stdin.on("end"): process.exit(0)
HelperEnd ==
  /\ IsNull(helper.exit) /\ ~helper.ended
  /\ helper' = [helper EXCEPT !.ended = TRUE, !.exit = Some(0)]
  /\ UNCHANGED <<tables, proc, now, hist>>

\* child.on("close"): a `permagit push` closes with code (Null when a signal
\* ended it: code ?? 1); the status lines, the blank line, process.exit.
HelperClose(code) ==
  LET ok == code = Some(0)
  IN  /\ IsNull(helper.exit) /\ helper.children > 0
      /\ helper' = [helper EXCEPT
                      !.children = @ - 1,
                      !.stdout = @ \o StatusLines(helper.pushSpecs, ok) \o <<"">>,
                      !.exit = Some(IF ok THEN 0 ELSE 1)]
      /\ UNCHANGED <<tables, proc, now, hist>>

\* ---------------------------------------------------------- specification

Init ==
  /\ payments = {}
  /\ repos = {}
  /\ otp_tokens = {}
  /\ multisig_pushes = {}
  /\ multisig_signatures = {}
  /\ pushes = {}
  /\ helper = HelperStart
  /\ proc = [p \in Procs |-> Idle]
  /\ now = 0
  /\ granted = [t \in TxSigs |-> 0]
  /\ setupDone = {}

PaySigs == {"tx1", "tx2"}

Verify(T, A, U) ==
  \/ \E p \in Procs, t \in T, a \in A, u \in U : VerifySelect(p, t, a, u)
  \/ \E p \in Procs : VerifyChain(p)
  \/ \E p \in Procs : VerifyInsert(p)

\* /repos with payment hashes T, names N, signers inputs S, threshold inputs
\* H and store faults F.
RegisterWith(T, N, S, H, F) ==
  \/ \E p \in Procs, nm \in N, t \in T, sg \in S, h \in H :
        RegBegin(p, nm, "alice", sg, h, t)
  \/ \E p \in Procs : RegLock(p)
  \/ \E p \in Procs : RegInsert(p)
  \/ \E p \in Procs, f \in F : RegCommit(p, f)
  \/ \E p \in Procs : RegRollback(p)

Register(T, N, F) == RegisterWith(T, N, {Null}, {Null}, F)

\* /otp/request with payment hashes T, names N, decryptKey inputs K,
\* expiresInMinutes inputs L and store faults F.
IssueWith(T, N, K, L, F) ==
  \/ \E p \in Procs, nm \in N, t \in T, k \in K, l \in L :
        IssueLookup(p, Null, Some("alice"), Some(nm), "bundle1", t, k, l)
  \/ \E p \in Procs : IssueBegin(p)
  \/ \E p \in Procs : IssueLock(p)
  \/ \E p \in Procs, f \in F : IssueInsert(p, "otp1", "key1", f)
  \/ \E p \in Procs, f \in F : IssueCommit(p, f)
  \/ \E p \in Procs : IssueRollback(p)

Issue(T, N, F) == IssueWith(T, N, {Null}, {Null}, F)

\* /otp/redeem with tokens O.
Redeem(O) ==
  \/ \E p \in Procs, o \in O : RedeemSelect(p, o)
  \/ \E p \in Procs : RedeemUpdate(p)

Setup(T, N, G) ==
  \/ \E p \in Procs, nm \in N, t \in T, g \in G :
        SetupPayment(p, Null, Some("alice"), Some(nm), "push1", g, Null, t)
  \/ \E p \in Procs : SetupFind(p)
  \/ \E p \in Procs : SetupInsert(p)
  \/ \E p \in Procs : SetupUpdate(p)
  \/ \E p \in Procs : SetupRefresh(p)
  \/ \E p \in Procs : SetupEnsure(p)
  \/ \E p \in Procs : SetupSelect(p)

Alice == {Some("alice")}

\* The payment-gated creations: payments are recorded, then spent on repos
\* and tickets.
Next ==
  \/ Verify(PaySigs, Alice, {Some("repo_init"), Some("otp_share")})
  \/ Register(PaySigs, Names, BOOLEAN)
  \/ Issue(PaySigs, Names, BOOLEAN)

Spec == Init /\ [][Next]_vars

\* /payments/verify alone, over ledger outcomes, purposes and payers.
NextVerify ==
  Verify({"tx1", "tx2", "txLow"}, {Null, Some("alice")},
         {Null} \cup {Some(x) : x \in Purposes})

SpecVerify == Init /\ [][NextVerify]_vars

\* /multisig/setup next to /payments/verify and /repos.
NextSetup ==
  \/ Verify({"tx1"}, Alice, {Some("repo_init")})
  \/ Verify({"tx2"}, Alice, {Some("multisig_setup")})
  \/ Register(PaySigs, Names, BOOLEAN)
  \/ Setup(PaySigs, Names, {Null, Some(<<"A", "B">>)})

SpecSetup == Init /\ [][NextSetup]_vars

\* The inputs are few and time stands at most one instant apart, so that
\* every handler fits in: one payment per purpose, one repo name, no store
\* faults.
NextClock ==
  \/ Verify({"tx1"}, Alice, {Some("repo_init")})
  \/ Verify({"tx2"}, Alice, {Some("otp_share")})
  \/ Verify({"tx3"}, Alice, {Some("multisig_setup")})
  \/ Register({"tx1"}, {"acme"}, {FALSE})
  \/ Issue({"tx2"}, {"acme"}, {FALSE})
  \/ Setup({"tx3"}, {"acme"}, {Some(<<"A", "B">>)})
  \/ Tick

SpecClock == Init /\ [][NextClock]_vars

\* ------------------------------------------------------------ properties

PaymentsOf(h) == {r \in payments : r.tx_sig = h}

ReposPaidBy(h) == {r \in repos : r.payment_tx = Some(h)}

TicketsPaidBy(h) == {r \in otp_tokens : r.payment_tx = Some(h)}

Gated == {"register", "issue"}

\* The purpose a payment-gated handler demands.
RequiredPurpose(op) == IF op = "register" THEN "repo_init" ELSE "otp_share"

\* Process p answers its request in this step.
Completes(p) == proc'[p] # proc[p] /\ proc'[p].pc = "done"

\* C1 as claimed: a /repos or /otp/request call that arrives after a call
\* with the same payment hash has succeeded fails with
\* payment_already_consumed and creates nothing.
C1_LaterCallAlreadyConsumed ==
  [][\A p \in Procs :
       (Completes(p) /\ proc'[p].op \in Gated /\ proc'[p].late)
       => /\ proc'[p].res = "payment_already_consumed"
          /\ repos' = repos /\ otp_tokens' = otp_tokens]_vars

\* C1 as amended: per payment hash at most one /repos or /otp/request call
\* succeeds; a call arriving after that success fails and creates nothing:
\* with payment_already_consumed when the handler's purpose is the
\* payment's, with payment_wrong_purpose when it is not, and an
\* /otp/request naming no existing repo with repo_not_found.
C1_AtMostOneSuccess ==
  [][/\ \A h \in TxSigs : granted'[h] <= 1
     /\ \A p \in Procs :
          (Completes(p) /\ proc'[p].op \in Gated /\ proc'[p].late)
          => LET q == proc'[p]
                 pay == CHOOSE r \in payments : r.tx_sig = q.txSig
             IN  /\ PaymentsOf(q.txSig) # {}
                 /\ q.res \in {"payment_already_consumed",
                               "payment_wrong_purpose", "repo_not_found"}
                 /\ q.res = "payment_already_consumed"
                      => pay.purpose = RequiredPurpose(q.op)
                 /\ q.res = "payment_wrong_purpose"
                      => pay.purpose # RequiredPurpose(q.op)
                 /\ q.res = "repo_not_found" => q.op = "issue"
                 /\ repos' = repos /\ otp_tokens' = otp_tokens
                 /\ payments' = payments /\ granted' = granted]_vars

\* A call that arrived after a success with its hash was refused as consumed.
C1_Witness ==
  \E p \in Procs :
    /\ proc[p].pc = "done" /\ proc[p].op \in Gated /\ proc[p].late
    /\ proc[p].res = "payment_already_consumed"
    /\ granted[proc[p].txSig] = 1

\* C2: whatever the interleaving of two /repos or two /otp/request calls
\* with one payment hash, at most one repo or ticket references the hash,
\* and of two answered calls with the hash at most one succeeded.
C2_OneResourcePerPayment ==
  /\ \A h \in TxSigs :
       Cardinality(ReposPaidBy(h)) + Cardinality(TicketsPaidBy(h)) <= 1
  /\ \A p, q \in Procs :
       (/\ p # q
        /\ proc[p].pc = "done" /\ proc[q].pc = "done"
        /\ proc[p].op \in Gated /\ proc[q].op \in Gated
        /\ proc[p].txSig = proc[q].txSig)
       => ~(proc[p].res = "ok" /\ proc[q].res = "ok")

\* Two calls of one kind with one hash overlapped: the loser arrived before
\* the winner had succeeded and was refused as consumed.
C2_Witness ==
  \E p, q \in Procs :
    /\ p # q
    /\ proc[p].pc = "done" /\ proc[q].pc = "done"
    /\ proc[p].op \in Gated /\ proc[q].op = proc[p].op
    /\ proc[p].txSig = proc[q].txSig
    /\ proc[p].res = "ok"
    /\ proc[q].res = "payment_already_consumed" /\ ~proc[q].late
    /\ Cardinality(ReposPaidBy(proc[p].txSig))
         + Cardinality(TicketsPaidBy(proc[p].txSig)) = 1

\* C3: a consume transaction that ends in an error leaves payments, repos
\* and tickets as they were; after a failed resource creation (repo_exists,
\* a store error) the payment's consumed_at is null.
C3_FailureRollsBack ==
  [][\A p \in Procs :
       (proc[p].pc = "rollback" /\ Completes(p))
       => /\ payments' = payments
          /\ repos' = repos
          /\ otp_tokens' = otp_tokens
          /\ proc[p].err \in {"repo_exists", "store_error"}
               => /\ PaymentsOf(proc[p].txSig) # {}
                  /\ \A r \in PaymentsOf(proc[p].txSig)' : IsNull(r.consumed_at)]_vars

\* A payment whose /repos call failed on repo_exists was consumed by a later
\* call.
C3_Witness ==
  \E p \in Procs :
    /\ proc[p].pc = "done" /\ proc[p].op = "register"
    /\ proc[p].res = "repo_exists"
    /\ granted[proc[p].txSig] = 1
    /\ \E r \in PaymentsOf(proc[p].txSig) : ~IsNull(r.consumed_at)

\* C4 as claimed: after a successful /multisig/setup with payment hash h the
\* payment's consumed_at is non-null, and a /multisig/setup that arrives
\* after a successful one with the same hash fails with
\* payment_already_consumed.
C4_SetupConsumesOnce ==
  \A p \in Procs :
    (proc[p].pc = "done" /\ proc[p].op = "setup")
    => /\ proc[p].res = "ok"
            => \A r \in PaymentsOf(proc[p].txSig) : ~IsNull(r.consumed_at)
       /\ proc[p].late => proc[p].res = "payment_already_consumed"

\* Two /multisig/setup calls, one after the other, succeeded on one payment,
\* which is still unconsumed.
C4_Witness ==
  \E p, q \in Procs :
    /\ p # q
    /\ proc[p].pc = "done" /\ proc[p].op = "setup" /\ proc[p].res = "ok"
    /\ proc[q].pc = "done" /\ proc[q].op = "setup" /\ proc[q].res = "ok"
    /\ proc[q].txSig = proc[p].txSig /\ proc[q].late
    /\ \E r \in PaymentsOf(proc[p].txSig) : IsNull(r.consumed_at)

\* C5 as claimed: a payment's consumed_at is set if and only if a repo or a
\* ticket whose payment_tx is the payment's tx_sig exists.
C5_ConsumedIffResource ==
  \A pay \in payments :
    ~IsNull(pay.consumed_at)
      <=> (ReposPaidBy(pay.tx_sig) \cup TicketsPaidBy(pay.tx_sig) # {})

\* A repo created by /multisig/setup references a payment that is unconsumed.
C5_Witness ==
  \E pay \in payments, r \in repos :
    /\ r.payment_tx = Some(pay.tx_sig)
    /\ r.is_multisig
    /\ IsNull(pay.consumed_at)
    /\ pay.purpose = "multisig_setup"

\* C6: consumed_at is write-once: in every step of every handler a payment
\* whose consumed_at is non-null keeps its row and its consumed_at, and a
\* payment's consumed_at changes only from null.
C6_ConsumedAtWriteOnce ==
  [][\A row \in payments :
       /\ \E r2 \in payments' : r2.id = row.id
       /\ \A r2 \in payments' :
            (r2.id = row.id /\ r2.consumed_at # row.consumed_at)
            => IsNull(row.consumed_at)]_vars

\* A payment consumed at instant 0 was replayed and refused at instant 1,
\* and still carries instant 0.
C6_Witness ==
  \E row \in payments, p \in Procs :
    /\ row.consumed_at = Some(0) /\ now = 1
    /\ proc[p].pc = "done" /\ proc[p].txSig = row.tx_sig
    /\ proc[p].res \in {"payment_already_consumed", "reused"}
    /\ \E other \in payments : other.consumed_at = Some(1)

\* C7: at most one payments row per transaction hash.
C7_OneRecordPerTxSig ==
  \A r1, r2 \in payments : r1.tx_sig = r2.tx_sig => r1 = r2

\* Two /payments/verify calls raced on one hash: one inserted the row, the
\* other's INSERT hit the unique constraint, and one row exists.
C7_Witness ==
  \E p, q \in Procs :
    /\ p # q
    /\ proc[p].pc = "done" /\ proc[p].op = "verify" /\ proc[p].res = "ok"
    /\ proc[q].pc = "done" /\ proc[q].op = "verify"
    /\ proc[q].res = "unique_violation"
    /\ proc[q].txSig = proc[p].txSig
    /\ proc[q].purpose # proc[p].purpose
    /\ Cardinality(PaymentsOf(proc[p].txSig)) = 1

\* The ledger accepts txSig as a payment of at least the minimum.
ValidPayment(txSig) ==
  /\ verifyTokenPayment(txSig).err = ""
  /\ verifyTokenPayment(txSig).amountAtomic >= MIN_PAYMENT_ATOMIC

\* C8 as claimed: of two /payments/verify calls for one valid hash with one
\* purpose (and a payer), both return the recorded payment: none ends in an
\* error.
C8_ConcurrentVerifyBothSucceed ==
  \A p, q \in Procs :
    (/\ p # q
     /\ proc[p].pc = "done" /\ proc[p].op = "verify"
     /\ proc[q].pc = "done" /\ proc[q].op = "verify"
     /\ proc[p].txSig = proc[q].txSig /\ proc[p].purpose = proc[q].purpose
     /\ ~IsNull(proc[p].payer) /\ ~IsNull(proc[q].payer)
     /\ ValidPayment(proc[p].txSig))
    => /\ proc[p].res \in {"ok", "reused"}
       /\ proc[q].res \in {"ok", "reused"}
       /\ Val(proc[p].response).id = Val(proc[q].response).id

\* The loser of the insert race was answered with the store's unique
\* violation while the winner's row is there, same purpose.
C8_Witness ==
  \E p, q \in Procs :
    /\ p # q
    /\ proc[p].pc = "done" /\ proc[p].op = "verify" /\ proc[p].res = "ok"
    /\ proc[q].pc = "done" /\ proc[q].op = "verify"
    /\ proc[q].res = "unique_violation"
    /\ proc[q].txSig = proc[p].txSig /\ proc[q].purpose = proc[p].purpose
    /\ ~IsNull(proc[q].payer)
    /\ \E r \in payments : r.tx_sig = proc[q].txSig /\ r.purpose = proc[q].purpose

\* Process p's request arrives in this step and is a /payments/verify.
VerifyArrives(p) ==
  /\ Free(p)
  /\ proc'[p] # proc[p]
  /\ proc'[p].op = "verify"

\* C9: a /payments/verify for a hash recorded with the same purpose is
\* answered at once, without the ledger query and without an INSERT, with
\* the stored row's id, payer, amount and consumed_at and status confirmed;
\* no payments row changes in anything but its status.
C9_ReplayReturnsStored ==
  [][\A p \in Procs : \A row \in payments :
       (/\ VerifyArrives(p)
        /\ row.tx_sig = proc'[p].txSig
        /\ row.purpose = proc'[p].purpose)
       => /\ proc'[p].pc = "done"
          /\ proc'[p].res = "reused"
          /\ proc'[p].response =
               Some([ id |-> row.id, txSig |-> row.tx_sig, payer |-> row.payer,
                      purpose |-> row.purpose,
                      tokenAmountAtomic |-> row.token_amount_atomic,
                      status |-> "confirmed", consumedAt |-> row.consumed_at ])
          /\ payments' = {[r EXCEPT !.status =
                             IF r.id = row.id THEN "confirmed" ELSE @] :
                          r \in payments}
          /\ UNCHANGED <<repos, otp_tokens, multisig_pushes,
                         multisig_signatures>>]_vars

\* A consumed payment was replayed: the answer carries its consumed_at.
C9_Witness ==
  \E p \in Procs :
    /\ proc[p].pc = "done" /\ proc[p].op = "verify" /\ proc[p].res = "reused"
    /\ ~IsNull(Val(proc[p].response).consumedAt)
    /\ \E r \in payments :
         /\ r.id = Val(proc[p].response).id
         /\ r.consumed_at = Val(proc[p].response).consumedAt

\* C10: a /payments/verify for a hash recorded with another purpose is
\* answered purpose_mismatch and changes no table; and in every step every
\* payments row keeps its tx_sig and its purpose.
C10_PurposeMismatch ==
  [][/\ \A p \in Procs : \A row \in payments :
          (/\ VerifyArrives(p)
           /\ row.tx_sig = proc'[p].txSig
           /\ row.purpose # proc'[p].purpose)
          => /\ proc'[p].pc = "done"
             /\ proc'[p].res = "purpose_mismatch"
             /\ UNCHANGED tables
     /\ \A row \in payments :
          \E r2 \in payments' :
            r2.id = row.id /\ r2.tx_sig = row.tx_sig /\ r2.purpose = row.purpose]_vars

\* A verify with purpose otp_share was refused on a payment recorded, and
\* since consumed, as repo_init.
C10_Witness ==
  \E p \in Procs, row \in payments :
    /\ proc[p].pc = "done" /\ proc[p].op = "verify"
    /\ proc[p].res = "purpose_mismatch"
    /\ row.tx_sig = proc[p].txSig
    /\ row.purpose # proc[p].purpose
    /\ ~IsNull(row.consumed_at)

\* ------------------------------------------------ the ledger's verdicts

LedgerSigs ==
  {"tx1", "txIdx", "txLow", "txZero", "txOther", "txFailed", "txNone", "txDown"}

\* /payments/verify alone, over every kind of ledger transaction.
NextLedger == Verify(LedgerSigs, Alice, {Some("repo_init")})

SpecLedger == Init /\ [][NextLedger]_vars

\* What the ledger holds against each transaction that is no payment.
LedgerVerdict ==
  [ txLow |-> "insufficient_amount", txZero |-> "no_deposit_detected",
    txOther |-> "destination_not_involved", txFailed |-> "transaction_failed",
    txNone |-> "transaction_not_found", txDown |-> "rpc_failed" ]

\* C11: a /payments/verify for a hash the ledger rejects (not found, failed,
\* destination not involved, no deposit, below the minimum, or the RPC call
\* failing) is answered with that error and writes nothing: no payments row
\* with the hash exists in any state, and every retry goes to the ledger
\* again.
C11_FailedVerifyRecordsNothing ==
  [][/\ \A h \in DOMAIN LedgerVerdict : PaymentsOf(h)' = {}
     /\ \A p \in Procs :
          (VerifyArrives(p) /\ proc'[p].txSig \in DOMAIN LedgerVerdict)
          => proc'[p].pc = "v_chain"
     /\ \A p \in Procs :
          (/\ proc[p].pc = "v_chain"
           /\ proc[p].txSig \in DOMAIN LedgerVerdict
           /\ proc'[p] # proc[p])
          => /\ proc'[p].pc = "done"
             /\ proc'[p].res = LedgerVerdict[proc[p].txSig]
             /\ UNCHANGED tables]_vars

\* A rejected hash was retried: both verifications were answered with the
\* ledger's error, and the hash has no row.
C11_Witness ==
  \E p, q \in Procs :
    /\ p # q
    /\ proc[p].pc = "done" /\ proc[q].pc = "done"
    /\ proc[p].op = "verify" /\ proc[q].op = "verify"
    /\ proc[p].txSig = "txFailed" /\ proc[q].txSig = "txFailed"
    /\ proc[p].res = "transaction_failed" /\ proc[q].res = "transaction_failed"
    /\ PaymentsOf("txFailed") = {}
    /\ payments # {}

\* The recipient's post-balance entries and the pre-balance entries that
\* match one of them in owner, mint and account index.
RecipientPost(h) ==
  {Chain[h].post[i] : i \in {j \in 1..Len(Chain[h].post) :
      /\ Chain[h].post[j].owner = PAYMENT_DESTINATION
      /\ Chain[h].post[j].mint = PAYMENT_TOKEN_MINT}}

MatchingPre(h, e) ==
  {Chain[h].pre[i] : i \in {j \in 1..Len(Chain[h].pre) :
      /\ Chain[h].pre[j].owner = e.owner
      /\ Chain[h].pre[j].mint = e.mint
      /\ Chain[h].pre[j].accountIndex = e.accountIndex}}

\* The nets delivered to the recipient's accounts by transaction h.
NetsDelivered(h) ==
  {e.amount - (IF MatchingPre(h, e) = {} THEN 0
               ELSE (CHOOSE x \in MatchingPre(h, e) : TRUE).amount) :
   e \in RecipientPost(h)}

\* C12: every payments row stores a net delivered to the recipient (post
\* balance minus the matching pre-balance, 0 when there is none), and that
\* amount is at least the minimum; a transaction whose recipient
\* post-balance reaches the minimum while its net does not is answered
\* insufficient_amount, or no_deposit_detected when the net is not positive.
C12_StoredAmountIsNet ==
  /\ \A row \in payments :
       /\ BigInt(row.token_amount_atomic) \in NetsDelivered(row.tx_sig)
       /\ BigInt(row.token_amount_atomic) >= MIN_PAYMENT_ATOMIC
  /\ \A p \in Procs :
       (/\ proc[p].pc = "done" /\ proc[p].op = "verify"
        /\ ~Chain[proc[p].txSig].down /\ ~Chain[proc[p].txSig].err
        /\ \E e \in RecipientPost(proc[p].txSig) : e.amount >= MIN_PAYMENT_ATOMIC
        /\ \A n \in NetsDelivered(proc[p].txSig) : n < MIN_PAYMENT_ATOMIC)
       => /\ proc[p].res = IF \E n \in NetsDelivered(proc[p].txSig) : n > 0
                           THEN "insufficient_amount"
                           ELSE "no_deposit_detected"
          /\ PaymentsOf(proc[p].txSig) = {}

\* tx1 (5 before, 15 after) is stored with amount 10, txIdx (no pre-balance
\* on the credited account) with 11, and txLow (20 before, 27 after) was
\* refused.
C12_Witness ==
  \E p \in Procs :
    /\ proc[p].pc = "done" /\ proc[p].txSig = "txLow"
    /\ proc[p].res = "insufficient_amount"
    /\ \E row \in payments :
         row.tx_sig = "tx1" /\ row.token_amount_atomic = <<1, 0>>
    /\ \E row \in payments :
         row.tx_sig = "txIdx" /\ row.token_amount_atomic = <<1, 1>>

\* --------------------------------------------------------- the threshold

AllSigners == <<"A", "B", "C", "D", "E">>

\* req.body.signers: absent, or an array of 0 to 5 signers, or an array with
\* a blank entry.
SignerInputs ==
  {Null, Some(<<"A", "", "B">>)} \cup
  {Some(SubSeq(AllSigners, 1, n)) : n \in 0..Len(AllSigners)}

\* req.body.threshold: absent, or one of -1, 0, 1/2, 1, 5/2, 5, 6.
ThresholdInputs ==
  {Null} \cup
  {Some(h) : h \in {Num(-1), Num(0), Num(1) - 1, Num(1), Num(2) + 1, Num(5), Num(6)}}

\* /repos with every signers list and threshold, on one payment.
NextThreshold ==
  \/ Verify({"tx1"}, Alice, {Some("repo_init")})
  \/ RegisterWith({"tx1"}, {"acme"}, SignerInputs, ThresholdInputs, {FALSE})

SpecThreshold == Init /\ [][NextThreshold]_vars

\* ceil(n/2) for n = 1..5.
DefaultThreshold == <<1, 1, 2, 2, 3>>

\* The threshold claimed for n signers and requested threshold t.
ClaimedThreshold(n, t) ==
  IF n = 0 THEN Null
  ELSE IF ~IsNull(t) /\ Num(1) <= Val(t) /\ Val(t) <= Num(n) THEN t
  ELSE Some(Num(DefaultThreshold[n]))

\* C18 as claimed: the threshold /repos computes for n > 0 signers is the
\* requested t when 1 <= t <= n and otherwise ceil(n/2); for no signers it
\* is null; a repo's multisig flag is true exactly when it has signers, and
\* a repo without signers has no threshold.
C18_EffectiveThreshold ==
  /\ \A p \in Procs :
       (proc[p].op = "register" /\ proc[p].pc = "r_lock")
       => proc[p].threshold =
            ClaimedThreshold(Len(proc[p].signers), proc[p].reqThreshold)
  /\ \A row \in repos :
       /\ row.is_multisig <=> Len(row.signers) > 0
       /\ Len(row.signers) = 0 => IsNull(row.threshold)
       /\ Len(row.signers) > 0 => ~IsNull(row.threshold)

\* A /repos call with signers and threshold one half took one half as its
\* threshold, and the store refused it: no repo, the payment unconsumed.
C18_Witness ==
  \E p, q \in Procs :
    /\ proc[p].op = "register" /\ proc[p].pc = "r_lock"
    /\ proc[p].reqThreshold = Some(1) /\ proc[p].threshold = Some(1)
    /\ Len(proc[p].signers) > 0
    /\ proc[q].op = "register" /\ proc[q].pc = "done"
    /\ proc[q].res = "invalid_input_syntax"
    /\ repos = {}
    /\ \E pay \in PaymentsOf("tx1") : IsNull(pay.consumed_at)

\* C19: at most one repo per (owner, name); a /repos call whose INSERT finds
\* the (owner, name) taken - by an earlier call or by the winner of a race
\* with another payment - throws repo_exists, and when it is answered no
\* table has changed and its payment's consumed_at is null.
C19_RepoExists ==
  [][/\ \A r1, r2 \in repos' :
          (r1.owner = r2.owner /\ r1.name = r2.name) => r1 = r2
     /\ \A r1 \in repos : r1 \in repos'
     /\ \A p \in Procs :
          (/\ proc[p].op = "register" /\ proc[p].pc = "r_insert"
           /\ proc'[p] # proc[p]
           /\ ReposKeyTaken(Val(proc[p].owner), Val(proc[p].name)))
          => /\ proc'[p].pc = "rollback"
             /\ proc'[p].err = "repo_exists"
             /\ UNCHANGED tables
     /\ \A p \in Procs :
          (/\ Completes(p) /\ proc'[p].op = "register"
           /\ proc'[p].res = "repo_exists")
          => /\ UNCHANGED tables
             /\ PaymentsOf(proc'[p].txSig) # {}
             /\ \A pay \in PaymentsOf(proc'[p].txSig) : IsNull(pay.consumed_at)]_vars

\* Two /repos calls with different payments asked for one (owner, name): one
\* created the repo, the other was answered repo_exists and its payment is
\* unconsumed.
C19_Witness ==
  \E p, q \in Procs :
    /\ proc[p].pc = "done" /\ proc[p].op = "register" /\ proc[p].res = "ok"
    /\ proc[q].pc = "done" /\ proc[q].op = "register"
    /\ proc[q].res = "repo_exists"
    /\ proc[q].txSig # proc[p].txSig
    /\ Cardinality(repos) = 1
    /\ \E r \in repos : r.payment_tx = Some(proc[p].txSig)
    /\ \E pay \in PaymentsOf(proc[q].txSig) : IsNull(pay.consumed_at)
    /\ \E pay \in PaymentsOf(proc[p].txSig) : ~IsNull(pay.consumed_at)

\* ------------------------------------------------------------ redemption

\* One repo, one ticket that lives one minute, and redemptions of its token
\* and of an unknown one while the minutes pass.
NextRedeem ==
  \/ Verify({"tx1"}, Alice, {Some("repo_init")})
  \/ Verify({"tx2"}, Alice, {Some("otp_share")})
  \/ Register({"tx1"}, {"acme"}, {FALSE})
  \/ IssueWith({"tx2"}, {"acme"}, {Null}, {Some(1)}, {FALSE})
  \/ Redeem({"otp1", "otp0"})
  \/ TickTo(MaxMinute)

SpecRedeem == Init /\ [][NextRedeem]_vars

\* The ticket row that process p read.
TicketOf(p) == CHOOSE x \in otp_tokens : x.id = Val(proc[p].ticket).id

\* C13: the conditional UPDATE of a redemption succeeds exactly when the
\* ticket's used_at is still null: that call is answered with the ticket's
\* repo id, bundle and key and sets used_at; a call whose UPDATE comes after
\* is answered otp_already_used, gets no key and changes nothing.  Of two
\* answered calls with one token at most one succeeded, and a ticket once
\* used stays as it is.
C13_RedeemOnce ==
  [][/\ \A p \in Procs :
          (proc[p].pc = "d_update" /\ proc'[p] # proc[p])
          => /\ proc'[p].pc = "done"
             /\ IF IsNull(TicketOf(p).used_at)
                THEN /\ proc'[p].res = "ok"
                     /\ proc'[p].response =
                          Some([ repoId |-> TicketOf(p).repo_id,
                                 bundleTx |-> TicketOf(p).bundle_tx,
                                 decryptKey |-> TicketOf(p).decrypt_key ])
                     /\ otp_tokens' = (otp_tokens \ {TicketOf(p)}) \cup
                          {[TicketOf(p) EXCEPT !.used_at = Some(now)]}
                ELSE /\ proc'[p].res = "otp_already_used"
                     /\ IsNull(proc'[p].response)
                     /\ UNCHANGED tables
     /\ \A p \in Procs :
          (Completes(p) /\ proc'[p].op = "redeem" /\ proc'[p].res = "ok")
          => proc[p].pc = "d_update"
     /\ \A p, q \in Procs :
          (/\ p # q
           /\ proc'[p].pc = "done" /\ proc'[p].op = "redeem"
           /\ proc'[q].pc = "done" /\ proc'[q].op = "redeem"
           /\ proc'[p].otp = proc'[q].otp)
          => ~(proc'[p].res = "ok" /\ proc'[q].res = "ok")
     /\ \A t \in otp_tokens : ~IsNull(t.used_at) => t \in otp_tokens']_vars

\* Two redemptions of one token raced: both read the ticket unused, one has
\* succeeded, and the other is about to send its UPDATE.
C13_Witness ==
  \E p, q \in Procs :
    /\ p # q
    /\ proc[q].pc = "done" /\ proc[q].op = "redeem" /\ proc[q].res = "ok"
    /\ Val(proc[q].response).decryptKey = "key1"
    /\ proc[p].pc = "d_update" /\ proc[p].otp = proc[q].otp
    /\ IsNull(Val(proc[p].ticket).used_at)
    /\ ~IsNull(TicketOf(p).used_at)

\* C14 as claimed: no ticket is redeemed past its expiry: the used_at of a
\* ticket is never later than its expires_at.
C14_NeverUsedAfterExpiry ==
  \A t \in otp_tokens :
    (~IsNull(t.used_at) /\ ~IsNull(t.expires_at))
    => ~(Val(t.expires_at) < Val(t.used_at))

\* A redemption succeeded on a ticket that expired at minute 1 and was
\* marked used at minute 2.
C14_Witness ==
  \E p \in Procs, t \in otp_tokens :
    /\ proc[p].pc = "done" /\ proc[p].op = "redeem" /\ proc[p].res = "ok"
    /\ t.otp_plain = proc[p].otp
    /\ t.expires_at = Some(1) /\ t.used_at = Some(2)

\* ------------------------------------------------------------- approvals

\* /multisig/approve of push txId of repo alice/acme, by the signers K, each
\* with a signature of their own over the approval message or with the
\* signature of another key.
Approve(K, txId) ==
  \/ \E p \in Procs, k \in K : \E by \in {k, "D"} :
        ApproveBegin(p, Null, Some("alice"), Some("acme"), txId, k,
                     Some(Sign(by, ApprovalMessage(txId))))
  \/ \E p \in Procs : ApproveLock(p)
  \/ \E p \in Procs : ApproveInsert(p)
  \/ \E p \in Procs : ApproveCount(p)
  \/ \E p \in Procs : ApproveCommit(p)
  \/ \E p \in Procs : ApproveRollback(p)

\* One multisig repo whose push push1 is registered by /multisig/setup with
\* signers A, B, C (threshold 2) or B, C (threshold 1), a later
\* /multisig/setup replacing the signer set, and approvals by A, B, C and D.
NextApprove ==
  \/ Verify({"tx3"}, Alice, {Some("multisig_setup")})
  \/ Setup({"tx3"}, {"acme"}, {Some(<<"A", "B", "C">>), Some(<<"B", "C">>)})
  \/ Approve({"A", "B", "C", "D"}, "push1")

SpecApprove == Init /\ [][NextApprove]_vars

\* The push row that process p holds locked.
PushOf(p) == CHOOSE x \in multisig_pushes : x.id = Val(proc[p].push).id


\* The signers whose signature is stored for a push.
SignersOf(pushId) == {s.signer : s \in SignaturesOf(pushId)}

\* C15: a push is approved exactly when the signers whose signature is
\* stored for it are at least as many as its approvals_required, and pending
\* while they are fewer; approvals_count is their number.
C15_ApprovedAtThreshold ==
  \A push \in multisig_pushes :
    LET n == Cardinality(SignersOf(push.id))
    IN  /\ push.approvals_count = n
        /\ push.status = IF n >= push.approvals_required THEN "approved"
                         ELSE "pending"

\* A push that requires two approvals got them from two requests: the first
\* was answered pending with count 1, the second approved with count 2.
C15_Witness ==
  \E push \in multisig_pushes : \E p, q \in Procs :
    /\ push.approvals_required = 2 /\ push.status = "approved"
    /\ Cardinality(SignersOf(push.id)) = 2
    /\ proc[p].pc = "done" /\ proc[p].op = "approve" /\ proc[p].res = "ok"
    /\ proc[q].pc = "done" /\ proc[q].op = "approve" /\ proc[q].res = "ok"
    /\ proc[p].signer # proc[q].signer
    /\ Val(proc[p].response).status = "pending"
    /\ Val(proc[p].response).approvalsCount = 1
    /\ Val(proc[q].response).status = "approved"
    /\ Val(proc[q].response).approvalsCount = 2

\* C16: the INSERT of an approval whose signer already has a signature stored
\* for the push throws signature_already_submitted, the request is answered
\* with that error and neither step changes a table; a stored signature is
\* never changed or removed; no push has two signatures of one signer.
C16_OneSignaturePerSigner ==
  [][/\ \A p \in Procs :
          (/\ proc[p].pc = "a_insert" /\ proc'[p] # proc[p]
           /\ proc[p].signer \in SignersOf(PushOf(p).id))
          => /\ proc'[p].pc = "rollback"
             /\ proc'[p].err = "signature_already_submitted"
             /\ UNCHANGED tables
     /\ \A p \in Procs :
          (proc[p].pc = "rollback" /\ proc[p].op = "approve"
           /\ proc'[p] # proc[p])
          => /\ proc'[p].pc = "done" /\ proc'[p].res = proc[p].err
             /\ IsNull(proc'[p].response)
             /\ UNCHANGED tables
     /\ \A s \in multisig_signatures : s \in multisig_signatures'
     /\ \A s, t \in multisig_signatures' :
          (s.multisig_push_id = t.multisig_push_id /\ s.signer = t.signer)
          => s = t]_vars

\* A signer approved a push twice: one request stored the signature, the
\* other was answered signature_already_submitted, and the push holds one
\* signature of that signer.
C16_Witness ==
  \E p, q \in Procs : \E push \in multisig_pushes :
    /\ p # q
    /\ proc[q].pc = "done" /\ proc[q].op = "approve" /\ proc[q].res = "ok"
    /\ proc[p].pc = "done" /\ proc[p].op = "approve"
    /\ proc[p].res = "signature_already_submitted"
    /\ proc[p].signer = proc[q].signer /\ proc[p].pushTx = push.push_tx
    /\ Cardinality({s \in SignaturesOf(push.id) : s.signer = proc[p].signer}) = 1
    /\ push.approvals_count = 1 /\ push.status = "pending"

\* C17: a push that is approved stays approved, with its approved_at, and
\* the status of a push is pending or approved; an approval committed for a
\* push that is already approved raises approvals_count by one and is
\* answered approved with the new count.
C17_ApprovedStaysApproved ==
  [][/\ \A push \in multisig_pushes : \E next \in multisig_pushes' :
          /\ next.id = push.id
          /\ next.status \in {"pending", "approved"}
          /\ push.status = "approved"
             => next.status = "approved" /\ next.approved_at = push.approved_at
     /\ \A p \in Procs :
          (/\ proc[p].pc = "a_count" /\ proc'[p] # proc[p]
           /\ PushOf(p).status = "approved")
          => \E next \in multisig_pushes' :
               /\ next.id = PushOf(p).id
               /\ next.approvals_count = PushOf(p).approvals_count + 1
               /\ proc'[p].res = "ok"
               /\ proc'[p].response =
                    Some([ status |-> "approved",
                           approvalsCount |-> next.approvals_count,
                           approvalsRequired |-> next.approvals_required ])]_vars

\* Signers A, B, C with threshold 2: the push was approved by two and the
\* third approval was answered approved with count 3.
C17_Witness ==
  \E p \in Procs : \E push \in multisig_pushes :
    /\ push.approvals_required = 2 /\ push.status = "approved"
    /\ push.approvals_count = 3
    /\ SignersOf(push.id) = {"A", "B", "C"}
    /\ proc[p].pc = "done" /\ proc[p].op = "approve" /\ proc[p].res = "ok"
    /\ proc[p].response = Some([ status |-> "approved", approvalsCount |-> 3,
                                 approvalsRequired |-> 2 ])

\* The signers of the repo a push belongs to, as the repos table has them.
RepoSignersOf(pushId) ==
  LET push == CHOOSE x \in multisig_pushes : Some(x.id) = pushId
      repo == CHOOSE x \in repos : x.id = push.repo_id
  IN  {repo.signers[i] : i \in 1..Len(repo.signers)}

\* C20 as claimed: whenever a signature is stored, its signer is in the
\* signer set the repo has at that moment.
C20_AuthorizedWhenApplied ==
  [][\A s \in multisig_signatures' \ multisig_signatures :
       s.signer \in RepoSignersOf(s.multisig_push_id)]_vars

\* An approval by A passed the signer check and holds its signature ready
\* to commit, while /multisig/setup has replaced the repo's signers by B, C.
C20_Witness ==
  \E p \in Procs :
    /\ proc[p].pc = "a_count" /\ proc[p].signer = "A"
    /\ Val(proc[p].wSig).signer = "A"
    /\ RepoSignersOf(Val(proc[p].wSig).multisig_push_id) = {"B", "C"}

\* ------------------------------------------------------------ registration

\* /push-log of the pushes X of repo alice/acme.
PushLog(X) ==
  \/ \E p \in Procs, x \in X : PushLogBegin(p, x, Some("alice"), Some("acme"))
  \/ \E p \in Procs : PushLogInsert(p)
  \/ \E p \in Procs : PushLogEnsure(p)
  \/ \E p \in Procs : PushLogSelect(p)

\* One multisig repo, set up with signers A, B, C (threshold 2) or B, C
\* (threshold 1); its push push1 is registered by /multisig/setup and by
\* /push-log, and approved by A and B.
NextPushLog ==
  \/ Verify({"tx3"}, Alice, {Some("multisig_setup")})
  \/ Setup({"tx3"}, {"acme"}, {Some(<<"A", "B", "C">>), Some(<<"B", "C">>)})
  \/ PushLog({"push1"})
  \/ Approve({"A", "B"}, "push1")

SpecPushLog == Init /\ [][NextPushLog]_vars

\* C21: the approvals_required of a registered push never changes: every
\* step keeps each multisig_pushes row, with its repo, push and
\* approvals_required.
C21_RequiredApprovalsFrozen ==
  [][\A push \in multisig_pushes : \E next \in multisig_pushes' :
       /\ next.id = push.id
       /\ next.repo_id = push.repo_id /\ next.push_tx = push.push_tx
       /\ next.approvals_required = push.approvals_required]_vars

\* A push registered with threshold 2 has an approval stored and still
\* requires 2, after /multisig/setup lowered the repo's threshold to 1 and
\* /push-log registered the push again.
C21_Witness ==
  \E push \in multisig_pushes : \E repo \in repos : \E p \in Procs :
    /\ repo.id = push.repo_id /\ repo.threshold = Some(1)
    /\ repo.signers = <<"B", "C">>
    /\ push.approvals_required = 2 /\ push.approvals_count = 1
    /\ proc[p].pc = "done" /\ proc[p].op = "pushlog" /\ proc[p].res = "ok"
    /\ proc[p].response =
         Some([ok |-> TRUE,
               multisig |-> Some([ status |-> "pending", approvalsRequired |-> 2,
                                   approvalsCount |-> 1 ])])

\* The request of p is at the INSERT of ensureMultisigEntry.
Registers(p) == proc[p].pc \in {"s_ensure", "l_ensure"}

\* C22: no two multisig_pushes rows have the same repo and push, and the
\* INSERT of a registration whose repo and push have a row already changes
\* neither multisig_pushes nor multisig_signatures.
C22_RegisterIdempotent ==
  [][/\ \A a, b \in multisig_pushes' :
          (a.repo_id = b.repo_id /\ a.push_tx = b.push_tx) => a = b
     /\ \A p \in Procs :
          (/\ Registers(p) /\ proc'[p] # proc[p] /\ ~IsNull(proc[p].repo)
           /\ \E x \in multisig_pushes :
                 x.repo_id = Val(proc[p].repo).id /\ x.push_tx = proc[p].pushTx)
          => UNCHANGED <<multisig_pushes, multisig_signatures>>]_vars

\* /multisig/setup and /push-log registered push1 of one repo at the same
\* time: both have sent their INSERT and the push has one row.
C22_Witness ==
  \E p, q \in Procs :
    /\ proc[p].pc = "l_select" /\ proc[q].pc = "s_select"
    /\ proc[p].pushTx = proc[q].pushTx
    /\ ~IsNull(proc[p].repo)
    /\ Val(proc[p].repo).id = Val(proc[q].repo).id
    /\ Cardinality({x \in multisig_pushes :
                      x.repo_id = Val(proc[p].repo).id
                      /\ x.push_tx = proc[p].pushTx}) = 1

\* ------------------------------------------------------ payment purposes

\* One payment per purpose, tx1 for repo_init, tx2 for otp_share and tx3 for
\* multisig_setup, and txNone that no /payments/verify records; every
\* payment-taking handler is called with each of them.
PurposeSigs == {"tx1", "tx2", "tx3", "txNone"}

NextPurpose ==
  \/ Verify({"tx1"}, Alice, {Some("repo_init")})
  \/ Verify({"tx2"}, Alice, {Some("otp_share")})
  \/ Verify({"tx3"}, Alice, {Some("multisig_setup")})
  \/ Register(PurposeSigs, {"acme"}, {FALSE})
  \/ Issue(PurposeSigs, {"acme"}, {FALSE})
  \/ Setup(PurposeSigs, {"acme"}, {Some(<<"A", "B">>)})

SpecPurpose == Init /\ [][NextPurpose]_vars

\* The purpose each payment-taking handler demands.
PurposeOf(op) ==
  IF op = "setup" THEN "multisig_setup" ELSE RequiredPurpose(op)

\* C23: a /repos or /otp/request whose SELECT ... FOR UPDATE finds no
\* payments row throws payment_not_found, and one that finds a row of another
\* purpose throws payment_wrong_purpose; the request is answered with that
\* error; a /multisig/setup is answered the same on arrival; none of these
\* steps changes a table.  A request of the three handlers that succeeds
\* named a payment recorded with the handler's purpose.
C23_MissingOrWrongPurpose ==
  [][/\ \A p \in Procs :
          (/\ proc[p].pc \in {"r_lock", "i_lock"} /\ proc'[p] # proc[p]
           /\ \A row \in PaymentsOf(proc[p].txSig) :
                 row.purpose # RequiredPurpose(proc[p].op))
          => /\ proc'[p].pc = "rollback"
             /\ proc'[p].err = IF PaymentsOf(proc[p].txSig) = {}
                               THEN "payment_not_found"
                               ELSE "payment_wrong_purpose"
             /\ IsNull(proc'[p].wRepo) /\ IsNull(proc'[p].wOtp)
             /\ ~proc'[p].wConsumed
             /\ UNCHANGED tables
     /\ \A p \in Procs :
          (/\ proc[p].pc = "rollback" /\ proc'[p] # proc[p]
           /\ proc[p].err \in {"payment_not_found", "payment_wrong_purpose"})
          => /\ proc'[p].pc = "done" /\ proc'[p].res = proc[p].err
             /\ UNCHANGED tables
     /\ \A p \in Procs :
          (/\ Free(p) /\ proc'[p] # proc[p] /\ proc'[p].op = "setup"
           /\ \A row \in PaymentsOf(proc'[p].txSig) :
                 row.purpose # "multisig_setup")
          => /\ proc'[p].pc = "done"
             /\ proc'[p].res = IF PaymentsOf(proc'[p].txSig) = {}
                               THEN "payment_not_found"
                               ELSE "payment_wrong_purpose"
             /\ UNCHANGED tables
     /\ \A p \in Procs :
          (/\ Completes(p) /\ proc'[p].res = "ok"
           /\ proc'[p].op \in {"register", "issue", "setup"})
          => \E row \in PaymentsOf(proc'[p].txSig) :
               row.purpose = PurposeOf(proc'[p].op)]_vars

\* A /repos call with the otp_share payment and a /multisig/setup with a
\* hash never recorded were both refused; the payment is unconsumed and no
\* repo exists.
C23_Witness ==
  \E p, q \in Procs :
    /\ proc[p].pc = "done" /\ proc[p].op = "register"
    /\ proc[p].txSig = "tx2" /\ proc[p].res = "payment_wrong_purpose"
    /\ proc[q].pc = "done" /\ proc[q].op = "setup"
    /\ proc[q].txSig = "txNone" /\ proc[q].res = "payment_not_found"
    /\ \E row \in PaymentsOf("tx2") :
         row.purpose = "otp_share" /\ IsNull(row.consumed_at)
    /\ repos = {}

\* ------------------------------------------------------- repeated setup

\* /multisig/setup called again and again with one body: repo alice/acme,
\* signers A, B, no threshold, push push1 and payment tx3; A and B approve
\* the push meanwhile.
NextRepeat ==
  \/ Verify({"tx3"}, Alice, {Some("multisig_setup")})
  \/ Setup({"tx3"}, {"acme"}, {Some(<<"A", "B">>)})
  \/ Approve({"A", "B"}, "push1")

SpecRepeat == Init /\ [][NextRepeat]_vars

\* C24: a /multisig/setup that arrives after one with the same body has
\* succeeded changes no table in any of its steps and is answered
\* successfully; once a setup has succeeded there is the one repo, multisig
\* with the signers and threshold of the body, and one multisig_pushes row
\* for the push.
C24_SetupIdempotent ==
  [][/\ \A p \in Procs :
          (proc[p].op = "setup" /\ proc[p].late /\ proc'[p] # proc[p]
           /\ ~Free(p))
          => /\ UNCHANGED tables
             /\ proc'[p].pc = "done" => proc'[p].res = "ok"
     /\ \A p \in Procs :
          (Free(p) /\ proc'[p] # proc[p] /\ proc'[p].op = "setup"
           /\ proc'[p].late)
          => proc'[p].pc = "s_find" /\ UNCHANGED tables
     /\ setupDone' # {}
        => /\ \E repo \in repos' :
                /\ repos' = {repo}
                /\ repo.owner = "alice" /\ repo.name = "acme"
                /\ repo.is_multisig /\ repo.signers = <<"A", "B">>
                /\ repo.threshold = Some(1)
                /\ Cardinality({x \in multisig_pushes' :
                                  x.repo_id = repo.id /\ x.push_tx = "push1"}) = 1
           /\ Cardinality(multisig_pushes') = 1]_vars

\* Two setups with the same body have succeeded one after the other, the
\* second on a push that A had approved in between.
C24_Witness ==
  \E p, q \in Procs : \E push \in multisig_pushes :
    /\ p # q
    /\ proc[p].pc = "done" /\ proc[p].op = "setup" /\ proc[p].res = "ok"
    /\ ~proc[p].late
    /\ proc[q].pc = "done" /\ proc[q].op = "setup" /\ proc[q].res = "ok"
    /\ proc[q].late
    /\ push.approvals_count = 1 /\ push.status = "approved"
    /\ Cardinality(repos) = 1

\* ------------------------------------------------------------- signatures

\* /multisig/approve of the pushes X of repo alice/acme by the signers K,
\* with a signature made by a key of B over the approval message of a push
\* of M.
ApproveWith(K, X, B, M) ==
  \/ \E p \in Procs, k \in K, x \in X, b \in B, m \in M :
        ApproveBegin(p, Null, Some("alice"), Some("acme"), x, k,
                     Some(Sign(b, ApprovalMessage(m))))
  \/ \E p \in Procs : ApproveLock(p)
  \/ \E p \in Procs : ApproveInsert(p)
  \/ \E p \in Procs : ApproveCount(p)
  \/ \E p \in Procs : ApproveCommit(p)
  \/ \E p \in Procs : ApproveRollback(p)

\* Repo alice/acme with signers A, B and the push push1; A and B approve
\* push1 with a signature of either key over the approval message of push1
\* or of another push, push2.
NextSignature ==
  \/ Verify({"tx3"}, Alice, {Some("multisig_setup")})
  \/ Setup({"tx3"}, {"acme"}, {Some(<<"A", "B">>)})
  \/ ApproveWith({"A", "B"}, {"push1"}, {"A", "B"}, {"push1", "push2"})

SpecSignature == Init /\ [][NextSignature]_vars

\* C25: every signature stored for a push is its signer's signature over
\* the approval message of that push, and an approval that arrives with any
\* other signature (of another key, or over the message of another push) is
\* answered with an error at once and changes no table.
C25_SignatureBoundToSubject ==
  [][/\ \A s \in multisig_signatures' : \E push \in multisig_pushes' :
          /\ s.multisig_push_id = Some(push.id)
          /\ s.signature_b64 = Sign(s.signer, ApprovalMessage(push.push_tx))
     /\ \A p \in Procs :
          (/\ Free(p) /\ proc'[p] # proc[p] /\ proc'[p].op = "approve"
           /\ proc'[p].pc # "done")
          => proc'[p].signature =
               Some(Sign(proc'[p].signer, ApprovalMessage(proc'[p].pushTx)))
     /\ \A p \in Procs :
          (Free(p) /\ proc'[p] # proc[p] /\ proc'[p].op = "approve"
           /\ proc'[p].pc = "done")
          => proc'[p].res # "ok" /\ UNCHANGED tables]_vars

\* push1 is tracked with no signature stored, and an approval of it by
\* signer A was refused as signature_invalid.
C25_Witness ==
  \E p \in Procs : \E push \in multisig_pushes :
    /\ push.push_tx = "push1" /\ SignaturesOf(push.id) = {}
    /\ proc[p].pc = "done" /\ proc[p].op = "approve"
    /\ proc[p].signer = "A" /\ proc[p].pushTx = "push1"
    /\ proc[p].res = "signature_invalid"

\* ------------------------------------------------------------ permagit push

\* backendJson rejects when the status is 400 or more, and the push command
\* does not catch what ensureRepoRegistered throws: the push goes on exactly
\* when the registration request r was answered 200.
PushContinues(r) == r.res = "ok"

\* /repos as `permagit push` sends it for a repository without repoId (name,
\* owner, signers [], no threshold, no paymentTxSig), next to a paid
\* registration.
NextCli ==
  \/ Verify({"tx1"}, Alice, {Some("repo_init")})
  \/ RegisterWith({"", "tx1"}, {"acme", "beta"}, {Some(<<>>)}, {Null}, {FALSE})

SpecCli == Init /\ [][NextCli]_vars

\* C26 as claimed: a /repos request that carries no payment hash is
\* answered successfully, its repo is created, and the push goes on.
C26_UnpaidRegistrationSucceeds ==
  [][\A p \in Procs :
       (Completes(p) /\ proc'[p].op = "register" /\ proc'[p].txSig = "")
       => /\ PushContinues(proc'[p])
          /\ Cardinality(repos') = Cardinality(repos) + 1]_vars

\* The registration sent by `permagit push` was answered payment_required;
\* no repo exists.
C26_Witness ==
  \E p \in Procs :
    /\ proc[p].pc = "done" /\ proc[p].op = "register" /\ proc[p].txSig = ""
    /\ proc[p].res = "payment_required" /\ ~PushContinues(proc[p])
    /\ repos = {}

\* ------------------------------------------------------ the remote helper

\* What git sends: capabilities, two push lines, done, quit.
HelperLines ==
  { Line("capabilities", <<>>), Line("push", <<"a", "x">>),
    Line("push", <<"b", "y">>), Line("done", <<>>), Line("quit", <<>>) }

\* The chunks of 1 to MaxChunk lines.
Chunks == UNION {[1..n -> HelperLines] : n \in 1..MaxChunk}

NextHelper ==
  \/ \E chunk \in Chunks : HelperData(chunk, MaxLines)
  \/ HelperEnd
  \/ \E code \in {Some(0), Some(1), Null} : HelperClose(code)

SpecHelper == Init /\ [][NextHelper]_vars

\* The last n lines written.
LastLines(n) ==
  IF Len(helper.stdout) < n THEN <<>>
  ELSE SubSeq(helper.stdout, Len(helper.stdout) - n + 1, Len(helper.stdout))

\* C27 as claimed: while the helper runs it has written no status line, only
\* the capabilities reply; once it has exited after a done, the last lines it
\* wrote are one status line per push spec received, in order, all ok with
\* exit code 0 or all error with exit code 1, and a blank line.
C27_HelperProtocol ==
  /\ IsNull(helper.exit)
     => \A i \in 1..Len(helper.stdout) : helper.stdout[i] \in {"push", ""}
  /\ (~IsNull(helper.exit) /\ helper.spawned > 0)
     => \E ok \in BOOLEAN :
          /\ helper.exit = Some(IF ok THEN 0 ELSE 1)
          /\ LastLines(Len(helper.pushSpecs) + 1) =
               StatusLines(helper.pushSpecs, ok) \o <<"">>

\* After push a:x and done, stdin ended while `permagit push` was running:
\* the helper has exited with code 0 and has written no status line.
C27_Witness ==
  /\ helper.pushSpecs = <<[src |-> "a", dst |-> "x"]>>
  /\ helper.spawned = 1 /\ helper.children = 1
  /\ helper.ended /\ helper.exit = Some(0)
  /\ helper.stdout = <<>>

\* C28: the approvals_count of every push is the number of
\* multisig_signatures rows stored for it.
C28_CountIsStoredSignatures ==
  \A push \in multisig_pushes :
    push.approvals_count = Cardinality(SignaturesOf(push.id))

\* B and C approved a fresh push at the same time, the second waiting for
\* the first at the row lock: they were answered counts 1 and 2 and the push
\* holds two signatures with count 2.
C28_Witness ==
  \E p, q \in Procs : \E push \in multisig_pushes :
    /\ proc[p].pc = "done" /\ proc[p].op = "approve" /\ proc[p].res = "ok"
    /\ proc[q].pc = "done" /\ proc[q].op = "approve" /\ proc[q].res = "ok"
    /\ proc[p].signer = "B" /\ proc[q].signer = "C"
    /\ Val(proc[p].response).approvalsCount = 1
    /\ Val(proc[q].response).approvalsCount = 2
    /\ push.approvals_required = 1
    /\ push.approvals_count = 2
    /\ Cardinality(SignaturesOf(push.id)) = 2

\* C29: an approval of a push of alice/acme is answered on arrival
\* repo_not_multisig when there is no multisig repo, else
\* signer_not_authorized when the signer is not in its signer set, else
\* signature_invalid when the signature does not verify; one that passes
\* these throws push_not_tracked at the SELECT when the push has no row and
\* else signature_already_submitted at the INSERT when the signer's signature
\* is stored.  None of the failing steps, nor the rollback that answers the
\* error, changes a table.
C29_CheckOrder ==
  [][/\ \A p \in Procs :
          (Free(p) /\ proc'[p] # proc[p] /\ proc'[p].op = "approve")
          => LET q == proc'[p]
                 repo == getRepoByOwnerAndName(Some("alice"), Some("acme"))
             IN  /\ UNCHANGED tables
                 /\ IF IsNull(repo) \/ ~Val(repo).is_multisig
                    THEN q.pc = "done" /\ q.res = "repo_not_multisig"
                    ELSE IF \A i \in 1..Len(Val(repo).signers) :
                                 Val(repo).signers[i] # q.signer
                    THEN q.pc = "done" /\ q.res = "signer_not_authorized"
                    ELSE IF q.pc = "done" THEN q.res = "signature_invalid"
                    ELSE /\ q.pc = "a_lock"
                         /\ verifyApprovalSignature(q.pushTx, q.signer,
                                                    q.signature) = ""
     /\ \A p \in Procs :
          (proc[p].pc = "a_lock" /\ proc'[p] # proc[p])
          => IF \E x \in multisig_pushes :
                  x.repo_id = Val(proc[p].repo) /\ x.push_tx = proc[p].pushTx
             THEN proc'[p].pc = "a_insert" /\ UNCHANGED tables
             ELSE /\ proc'[p].pc = "rollback"
                  /\ proc'[p].err = "push_not_tracked"
                  /\ UNCHANGED tables
     /\ \A p \in Procs :
          (proc[p].pc = "a_insert" /\ proc'[p] # proc[p])
          => IF proc[p].signer \in SignersOf(PushOf(p).id)
             THEN /\ proc'[p].pc = "rollback"
                  /\ proc'[p].err = "signature_already_submitted"
                  /\ UNCHANGED tables
             ELSE proc'[p].pc = "a_tally" /\ UNCHANGED tables
     /\ \A p \in Procs :
          (proc[p].pc = "rollback" /\ proc[p].op = "approve"
           /\ proc'[p] # proc[p])
          => /\ proc'[p].pc = "done" /\ proc'[p].res = proc[p].err
             /\ IsNull(proc[p].wSig)
             /\ UNCHANGED tables
     /\ \A p \in Procs :
          (Completes(p) /\ proc'[p].op = "approve" /\ proc'[p].res # "ok")
          => UNCHANGED tables]_vars

\* A, not a signer of the repo, was answered signer_not_authorized and
\* another approval was answered push_not_tracked.
C29_Witness ==
  \E p, q \in Procs :
    /\ proc[p].pc = "done" /\ proc[p].op = "approve"
    /\ proc[p].res = "signer_not_authorized" /\ proc[p].signer = "A"
    /\ \E repo \in repos : repo.is_multisig /\ repo.signers = <<"B", "C">>
    /\ proc[q].pc = "done" /\ proc[q].op = "approve"
    /\ proc[q].res = "push_not_tracked"

\* A request that has no transaction open, holds no row lock and has no
\* uncommitted write.
HoldsNothing(r) ==
  /\ IsNull(r.txStart) /\ IsNull(r.lock) /\ IsNull(r.pushLock)
  /\ IsNull(r.wRepo) /\ IsNull(r.wOtp) /\ IsNull(r.wSig) /\ ~r.wConsumed

\* C30: a /payments/verify asks the ledger while it has no transaction open
\* and holds no row lock, and that step writes nothing; when the ledger's
\* answer is a valid payment the next step, still outside any transaction,
\* is the one INSERT, which adds at most the one confirmed row of the hash
\* with the amount the ledger gave.
C30_LedgerOutsideTransaction ==
  [][\A p \in Procs :
       /\ (proc[p].pc = "v_chain" /\ proc'[p] # proc[p])
          => /\ HoldsNothing(proc[p])
             /\ UNCHANGED tables
             /\ proc'[p].pc \in {"done", "v_insert"}
             /\ proc'[p].pc = "v_insert"
                => /\ verifyTokenPayment(proc[p].txSig).err = ""
                   /\ proc'[p].amount
                        = verifyTokenPayment(proc[p].txSig).amountAtomic
                   /\ proc'[p].amount >= MIN_PAYMENT_ATOMIC
                   /\ HoldsNothing(proc'[p])
       /\ (proc[p].pc = "v_insert" /\ proc'[p] # proc[p])
          => /\ HoldsNothing(proc[p])
             /\ proc'[p].pc = "done"
             /\ UNCHANGED <<repos, otp_tokens, multisig_pushes,
                            multisig_signatures, pushes>>
             /\ \/ UNCHANGED payments /\ proc'[p].res # "ok"
                \/ /\ proc'[p].res = "ok"
                   /\ \E row \in payments' \ payments :
                        /\ payments' = payments \cup {row}
                        /\ row.tx_sig = proc[p].txSig
                        /\ row.status = "confirmed"
                        /\ row.token_amount_atomic = toString(proc[p].amount)]_vars

\* The ledger has answered one /payments/verify, whose INSERT is still to
\* come, while another request holds the lock of a payments row.
C30_Witness ==
  \E p, q \in Procs :
    /\ proc[p].op = "verify" /\ proc[p].pc = "v_insert"
    /\ HoldsNothing(proc[p])
    /\ ~IsNull(proc[q].lock) /\ ~IsNull(proc[q].txStart)

\* ---------------------------------------------------------- ticket tokens

\* /otp/request whose randomBytes(16) token is any value of O.
IssueDrawing(T, N, O) ==
  \/ \E p \in Procs, nm \in N, t \in T :
        IssueLookup(p, Null, Some("alice"), Some(nm), "bundle1", t, Null, Null)
  \/ \E p \in Procs : IssueBegin(p)
  \/ \E p \in Procs : IssueLock(p)
  \/ \E p \in Procs, o \in O : IssueInsert(p, o, "key1", FALSE)
  \/ \E p \in Procs : IssueCommit(p, FALSE)
  \/ \E p \in Procs : IssueRollback(p)

\* One repo and two tickets bought with two payments; the 16 random bytes
\* of a token are one of two values.
NextTokens ==
  \/ Verify({"tx1"}, Alice, {Some("repo_init")})
  \/ Verify({"tx2", "tx3"}, Alice, {Some("otp_share")})
  \/ Register({"tx1"}, {"acme"}, {FALSE})
  \/ IssueDrawing({"tx2", "tx3"}, {"acme"}, {"otp1", "otp2"})
  \/ Redeem({"otp1"})

SpecTokens == Init /\ [][NextTokens]_vars

\* C31: no two rows of otp_tokens carry the same otp_plain.
C31_TokensUnique ==
  \A x, y \in otp_tokens : x.otp_plain = y.otp_plain => x = y

\* Two tickets are stored.
C31_Witness ==
  \E x, y \in otp_tokens : x.id # y.id

\* ---------------------------------------------------------- ticket expiry

\* One repo and one ticket, asked for with no expiresInMinutes (or one that
\* is no number) and with -1, 0, 1 and 2 minutes, while the minutes pass.
NextExpiry ==
  \/ Verify({"tx1"}, Alice, {Some("repo_init")})
  \/ Verify({"tx2"}, Alice, {Some("otp_share")})
  \/ Register({"tx1"}, {"acme"}, {FALSE})
  \/ IssueWith({"tx2"}, {"acme"}, {Null},
               {Null, Some(-1), Some(0), Some(1), Some(2)}, {FALSE})
  \/ TickTo(MaxMinute)

SpecExpiry == Init /\ [][NextExpiry]_vars

\* C32: the INSERT of /otp/request gives the ticket the expiry Date.now()
\* plus the caller's expiresInMinutes when that is a number above 0, and
\* plus 1440 minutes when it is absent, 0, negative or no number; the expiry
\* is later than the transaction's start (the row's created_at); the
\* committed row carries it, the response repeats it, and no stored ticket
\* has a null expiry.
C32_Expiry ==
  [][/\ \A p \in Procs :
          (proc[p].pc = "i_insert" /\ proc'[p].pc = "i_commit")
          => LET row == Val(proc'[p].wOtp)
                 l == proc[p].ttl
             IN  /\ row.expires_at
                      = Some(now + (IF ~IsNull(l) /\ Val(l) >= 1 THEN Val(l)
                                    ELSE 1440))
                 /\ Val(row.expires_at) > Val(proc[p].txStart)
     /\ \A p \in Procs :
          (proc[p].pc = "i_commit" /\ Completes(p) /\ proc'[p].res = "ok")
          => /\ otp_tokens' = otp_tokens \cup {Val(proc[p].wOtp)}
             /\ Some(Val(proc'[p].response).expiresAt)
                  = Val(proc[p].wOtp).expires_at
     /\ \A row \in otp_tokens' : ~IsNull(row.expires_at)]_vars

\* A ticket asked for without a ttl in a transaction begun at minute 0 and
\* inserted at minute 1 was answered with the expiry 1441, which is stored.
C32_Witness ==
  \E p \in Procs, row \in otp_tokens :
    /\ proc[p].op = "issue" /\ proc[p].pc = "done" /\ proc[p].res = "ok"
    /\ Val(proc[p].response).expiresAt = 1441
    /\ row.expires_at = Some(1441)

\* ------------------------------------------------- signatures and status

\* C33: once a push has a stored signature it is approved exactly when its
\* stored signatures are at least approvals_required (so no push is approved
\* with fewer); no step removes a multisig_signatures row, and the number of
\* signatures of a push and its approvals_count never go down.
C33_ApprovedIffEnoughSignatures ==
  [][/\ \A push \in multisig_pushes' :
          LET n == Cardinality({x \in multisig_signatures' :
                                  x.multisig_push_id = Some(push.id)})
          IN  /\ n >= 1 => (push.status = "approved"
                            <=> n >= push.approvals_required)
              /\ push.status = "approved" => n >= push.approvals_required
     /\ multisig_signatures \subseteq multisig_signatures'
     /\ \A push \in multisig_pushes : \E next \in multisig_pushes' :
          /\ next.id = push.id
          /\ next.approvals_count >= push.approvals_count]_vars

\* A push that requires one approval holds one signature and is approved,
\* next to an approval answered approved with count 1 of 1.
C33_Witness ==
  \E p \in Procs, push \in multisig_pushes :
    /\ push.approvals_required = 1 /\ push.status = "approved"
    /\ Cardinality(SignaturesOf(push.id)) = 1
    /\ proc[p].pc = "done" /\ proc[p].op = "approve"
    /\ proc[p].response = Some([ status |-> "approved", approvalsCount |-> 1,
                                 approvalsRequired |-> 1 ])

\* ------------------------------------------------------------ approved_at

\* One multisig repo with signers B, C (threshold 1); its push push1 is
\* registered by /multisig/setup and again by /push-log and later setups,
\* and approved by B and C while time passes.
NextStamp ==
  \/ Verify({"tx3"}, Alice, {Some("multisig_setup")})
  \/ Setup({"tx3"}, {"acme"}, {Some(<<"B", "C">>)})
  \/ PushLog({"push1"})
  \/ Approve({"B", "C"}, "push1")
  \/ Tick

SpecStamp == Init /\ [][NextStamp]_vars

\* C34: the approved_at of a push is null exactly while its status is
\* pending; the step that turns a push from pending to approved is the
\* COMMIT of an approval, which stamps approved_at with that transaction's
\* NOW(); and no later step, approval or registration, changes the
\* approved_at of an approved push.
C34_ApprovedAtStamp ==
  [][/\ \A push \in multisig_pushes' :
          IsNull(push.approved_at) <=> push.status = "pending"
     /\ \A push \in multisig_pushes : \E next \in multisig_pushes' :
          /\ next.id = push.id
          /\ push.status = "approved" => next.approved_at = push.approved_at
          /\ (push.status = "pending" /\ next.status = "approved")
             => \E p \in Procs :
                  /\ proc[p].pc = "a_count" /\ Completes(p)
                  /\ Val(proc[p].push).id = push.id
                  /\ next.approved_at = proc[p].txStart]_vars

\* At instant 1 a push approved in a transaction begun at instant 0 holds
\* approved_at 0 and two approvals, next to an answered approval and an
\* answered /push-log of the push.
C34_Witness ==
  \E p, q \in Procs, push \in multisig_pushes :
    /\ now = 1
    /\ push.status = "approved" /\ push.approved_at = Some(0)
    /\ push.approvals_count = 2
    /\ proc[p].pc = "done" /\ proc[p].op = "approve" /\ proc[p].res = "ok"
    /\ proc[q].pc = "done" /\ proc[q].op = "pushlog" /\ proc[q].res = "ok"

\* ------------------------------------------------------- repeated signers

\* /multisig/setup with the signer lists A, A, A and A, B and no requested
\* threshold, and approvals by A and B.
NextDistinct ==
  \/ Verify({"tx3"}, Alice, {Some("multisig_setup")})
  \/ Setup({"tx3"}, {"acme"}, {Some(<<"A", "A", "A">>), Some(<<"A", "B">>)})
  \/ Approve({"A", "B"}, "push1")

SpecDistinct == Init /\ [][NextDistinct]_vars

\* C35: the threshold of every multisig repo is at most the number of
\* distinct signers in its list.
C35_ThresholdWithinDistinctSigners ==
  \A repo \in repos :
    (repo.is_multisig /\ ~IsNull(repo.threshold))
    => Val(repo.threshold)
         <= Cardinality({repo.signers[i] : i \in 1..Len(repo.signers)})

\* The repo's signers are A, A, A with threshold 2; the push registered for
\* it requires 2 approvals, holds the signature of A, its only signer, and
\* is pending, and a second approval by A was answered
\* signature_already_submitted.
C35_Witness ==
  \E repo \in repos, push \in multisig_pushes, p \in Procs :
    /\ repo.signers = <<"A", "A", "A">> /\ repo.threshold = Some(2)
    /\ push.repo_id = repo.id /\ push.approvals_required = 2
    /\ SignersOf(push.id) = {"A"}
    /\ push.status = "pending"
    /\ proc[p].pc = "done" /\ proc[p].op = "approve"
    /\ proc[p].res = "signature_already_submitted"

\* ------------------------------------------------------------ plain repos

\* /multisig/setup with signer lists G and requested thresholds H.
SetupWith(T, N, G, H) ==
  \/ \E p \in Procs, nm \in N, t \in T, g \in G, h \in H :
        SetupPayment(p, Null, Some("alice"), Some(nm), "push1", g, h, t)
  \/ \E p \in Procs : SetupFind(p)
  \/ \E p \in Procs : SetupInsert(p)
  \/ \E p \in Procs : SetupUpdate(p)
  \/ \E p \in Procs : SetupRefresh(p)
  \/ \E p \in Procs : SetupEnsure(p)
  \/ \E p \in Procs : SetupSelect(p)

\* Repo alice/acme is created plain by /repos and made multisig by
\* /multisig/setup, with signers B, C or B and a requested threshold of 5;
\* /push-log registers push2 and B approves push1, before and after.
NextPlain ==
  \/ Verify({"tx1"}, Alice, {Some("repo_init")})
  \/ Verify({"tx3"}, Alice, {Some("multisig_setup")})
  \/ Register({"tx1"}, {"acme"}, {FALSE})
  \/ SetupWith({"tx3"}, {"acme"}, {Some(<<"B", "C">>), Some(<<"B">>)},
               {Some(Num(5))})
  \/ PushLog({"push2"})
  \/ Approve({"B"}, "push1")

SpecPlain == Init /\ [][NextPlain]_vars

\* C36: every multisig_pushes row belongs to a repo that is multisig; the
\* registration step of /push-log and of /multisig/setup adds a row only
\* for a repo it read as multisig, with approvals_required from 1 to the
\* length of that repo's signer list, and adds none for a plain or missing
\* repo; an approval that arrives while the repo is plain or missing is
\* answered repo_not_multisig and changes nothing.
C36_RequestOnlyForMultisig ==
  [][/\ \A push \in multisig_pushes' : \E repo \in repos' :
          repo.id = push.repo_id /\ repo.is_multisig
     /\ \A p \in Procs :
          (proc[p].pc \in {"l_ensure", "s_ensure"} /\ proc'[p] # proc[p])
          => LET repo == proc[p].repo
                 new == multisig_pushes' \ multisig_pushes
             IN  /\ multisig_pushes \subseteq multisig_pushes'
                 /\ (IsNull(repo) \/ ~Val(repo).is_multisig) => new = {}
                 /\ \A push \in new :
                      /\ push.repo_id = Val(repo).id
                      /\ push.push_tx = proc[p].pushTx
                      /\ 1 <= push.approvals_required
                      /\ push.approvals_required <= Len(Val(repo).signers)
     /\ \A p \in Procs :
          (/\ Free(p) /\ proc'[p] # proc[p] /\ proc'[p].op = "approve"
           /\ \A repo \in repos : ~repo.is_multisig)
          => /\ proc'[p].pc = "done" /\ proc'[p].res = "repo_not_multisig"
             /\ UNCHANGED tables]_vars

\* The repo is plain: a /push-log for push2 was answered with no multisig
\* entry and stored its pushes row, an approval was answered
\* repo_not_multisig, and there is no multisig_pushes row.
C36_Witness ==
  \E p, q \in Procs :
    /\ \E repo \in repos : ~repo.is_multisig
    /\ proc[p].pc = "done" /\ proc[p].op = "pushlog"
    /\ proc[p].response = Some([ok |-> TRUE, multisig |-> Null])
    /\ pushes # {}
    /\ proc[q].pc = "done" /\ proc[q].op = "approve"
    /\ proc[q].res = "repo_not_multisig"
    /\ multisig_pushes = {}

\* ------------------------------------------------- status of a payment

\* C37: every payments row has status confirmed, and no request has thrown
\* or been answered payment_not_confirmed.
C37_AllPaymentsConfirmed ==
  /\ \A row \in payments : row.status = "confirmed"
  /\ \A p \in Procs :
       /\ proc[p].err # "payment_not_confirmed"
       /\ proc[p].res # "payment_not_confirmed"

\* Three payments are recorded; /repos and /otp/request have each consumed
\* theirs, the /otp/request being answered just now, and /multisig/setup
\* has accepted its own.
C37_Witness ==
  /\ Cardinality(payments) = 3
  /\ granted["tx1"] = 1 /\ granted["tx2"] = 1
  /\ "tx3" \in setupDone
  /\ \E p \in Procs : proc[p].pc = "done" /\ proc[p].op = "issue"
                       /\ proc[p].res = "ok"

\* --------------------------------------------------------------- progress

\* Repo alice/acme is created multisig by /repos with signers B, C; tickets
\* are asked for with the /repos payment and with their own; push1 is
\* registered by /push-log and approved by B.  The store fails the UPDATE
\* of a payment or not.
NextLive ==
  \/ Verify({"tx1"}, Alice, {Some("repo_init")})
  \/ Verify({"tx2"}, Alice, {Some("otp_share")})
  \/ RegisterWith({"tx1"}, {"acme"}, {Some(<<"B", "C">>)}, {Null}, BOOLEAN)
  \/ Issue({"tx1", "tx2"}, {"acme"}, BOOLEAN)
  \/ PushLog({"push1"})
  \/ Approve({"B"}, "push1")

\* A statement of the transaction process p has open.
TxStep(p) ==
  \/ RegLock(p) \/ RegInsert(p) \/ RegRollback(p)
  \/ \E f \in BOOLEAN : RegCommit(p, f)
  \/ IssueBegin(p) \/ IssueLock(p) \/ IssueRollback(p)
  \/ \E f \in BOOLEAN : IssueInsert(p, "otp1", "key1", f)
  \/ \E f \in BOOLEAN : IssueCommit(p, f)
  \/ ApproveLock(p) \/ ApproveInsert(p) \/ ApproveCount(p)
  \/ ApproveCommit(p) \/ ApproveRollback(p)

\* Every request runs on: the event loop resumes a handler whose statement
\* the store has answered, and the store grants a row lock to the requests
\* waiting for it in turn.
SpecLive == Init /\ [][NextLive]_vars /\ \A p \in Procs : SF_vars(TxStep(p))

\* Process p has a transaction open or a row lock in hand.
InTransaction(p) ==
  \/ ~IsNull(proc[p].txStart)
  \/ ~IsNull(proc[p].lock) \/ ~IsNull(proc[p].pushLock)

\* C38: a request that has a transaction open leaves it only by the step
\* that commits it (answered ok) or by the ROLLBACK of its catch block, and
\* is then done, holding nothing; and every request with a transaction open
\* or a row lock in hand eventually has neither, whatever other requests
\* wait for the same payments or multisig_pushes row.
C38_TransactionsEnd ==
  /\ [][\A p \in Procs :
          (InTransaction(p) /\ ~InTransaction(p)')
          => /\ proc'[p].pc = "done"
             /\ HoldsNothing(proc'[p])
             /\ \/ /\ proc[p].pc \in {"r_commit", "i_commit", "a_count"}
                   /\ proc'[p].res = "ok"
                \/ /\ proc[p].pc = "rollback"
                   /\ proc'[p].res = proc[p].err]_vars
  /\ \A p \in Procs : InTransaction(p) ~> ~InTransaction(p)

\* One approval holds the lock of the push row while another, with its
\* transaction open, waits for it.
C38_Witness ==
  \E p, q \in Procs :
    /\ p # q
    /\ proc[p].op = "approve" /\ ~IsNull(proc[p].pushLock)
    /\ proc[q].op = "approve" /\ proc[q].pc = "a_lock"
    /\ ~IsNull(proc[q].txStart)
    /\ ~PushLockFree(q, Val(proc[p].pushLock))

\* ------------------------------------------------------ one push a session

\* C39: the remote helper starts at most one `permagit push`.
C39_PushAtMostOnce == helper.spawned <= 1

\* After push a:x and done, a second done arrived while the first
\* `permagit push` was running: two are running.
C39_Witness ==
  /\ helper.pushSpecs = <<[src |-> "a", dst |-> "x"]>>
  /\ helper.spawned = 2 /\ helper.children = 2
  /\ IsNull(helper.exit)

====
